---- MODULE Spec2Model ----
(***************************************************************************)
(* Verification model of the k8s-chat backend: the diagnostic executor     *)
(* (src/k8s_client.py), the LLM provider abstraction (src/llm_client.py    *)
(* and src/project/llm_client.py) and the /chat orchestration pipeline     *)
(* (src/app.py).                                                           *)
(*                                                                         *)
(* Conventions.  A Python string that the code splits into words is a      *)
(* sequence of tokens; a dict is a record or, where insertion order        *)
(* matters, a sequence of [key, value] entries; a function that may raise  *)
(* returns [raised, value].  The text captured on stderr is the set of     *)
(* lower-cased phrases it contains that the code tests for.                *)
(***************************************************************************)
EXTENDS Integers, Sequences, FiniteSets, TLC

VARIABLES exec_call, exec_result, llm_call, llm_result, provider, provider_calls, turn, conversation_history, db_chat,
          active_llm_config, active_kubeconfig, health_cache, health, clock, kubeconfig_ops

vars == <<exec_call, exec_result, llm_call, llm_result, provider, provider_calls, turn, conversation_history, db_chat,
          active_llm_config, active_kubeconfig, health_cache, health, clock, kubeconfig_ops>>

healthVars == <<health_cache, health, clock, kubeconfig_ops>>

providerVars == <<provider, provider_calls>>

pureVars == <<exec_call, exec_result, llm_call, llm_result, providerVars>>

chatVars == <<turn, conversation_history, db_chat, active_llm_config, active_kubeconfig, healthVars>>

\* What a step of a request or of a session endpoint never changes.
restVars == <<active_llm_config, active_kubeconfig, healthVars, pureVars>>

(***************************************************************************)
(* Generic helpers                                                         *)
(***************************************************************************)
Take(s, n) == SubSeq(s, 1, IF n < Len(s) THEN n ELSE Len(s))

Range(s) == {s[i] : i \in 1..Len(s)}

Get(d, k, default) == IF k \in DOMAIN d THEN d[k] ELSE default

(***************************************************************************)
(* Diagnostic executor: K8sClient._run_kubectl_command                     *)
(***************************************************************************)
DefaultKubeconfig == "~/.kube/config"

CustomKubeconfig == "/etc/kube/alt.yaml"

NotFoundPhrase == "not found"

ConnectionPhrases == {"unable to connect", "connection refused", "no configuration", "invalid configuration"}

StderrPhrases == {NotFoundPhrase} \cup ConnectionPhrases

KubectlNotFoundText == "kubectl not found - please install kubectl or ensure it's in PATH"

\* f"Command timed out after {timeout} seconds"
TimedOutText(timeout) == <<"Command timed out after ", timeout, " seconds">>

\* f'Cluster connection error: {result.stderr.strip()}'
ConnectionErrorText(stderr) == <<"Cluster connection error: ", stderr>>

Now == "now"

get_kubectl_command(kubeconfig_path, command) ==
    <<"kubectl">> \o (IF kubeconfig_path # DefaultKubeconfig THEN <<"--kubeconfig", kubeconfig_path>> ELSE <<>>) \o command

\* What subprocess.run does for one invocation: the process exits, the
\* timeout expires, the binary is missing, or something else is raised
\* (before or after full_command was bound).  "cause" is the ground truth
\* of the environment, which the code never sees.
ExitOutcome(cause, rc, out, err) ==
    [kind |-> "exit", cause |-> cause, returncode |-> rc, stdout |-> out, stderr |-> err, bound |-> TRUE]

RaiseOutcome(kind, cause, bound) ==
    [kind |-> kind, cause |-> cause, returncode |-> 0, stdout |-> "", stderr |-> {}, bound |-> bound]

ProcOutcomes ==
    {ExitOutcome("ok", 0, "OUT", e) : e \in {{}, {NotFoundPhrase}}}
    \cup {ExitOutcome("resource_missing", 1, "", {NotFoundPhrase})}
    \cup {ExitOutcome("unreachable", 1, "", e) : e \in {s \in SUBSET StderrPhrases : s \cap ConnectionPhrases # {}}}
    \cup {ExitOutcome("command_failed", 1, o, {}) : o \in {"", "OUT"}}
    \cup {RaiseOutcome("TimeoutExpired", "hang", TRUE), RaiseOutcome("FileNotFoundError", "binary_absent", TRUE)}
    \cup {RaiseOutcome("Exception", "unexpected", b) : b \in BOOLEAN}

ExceptionText == "unexpected error"

\* The body of the try block, for a process that exited (lines 79-116).
KubectlExitResult(full_command, proc) ==
    IF proc.returncode # 0 /\ NotFoundPhrase \in proc.stderr
    THEN [success |-> FALSE, error |-> <<KubectlNotFoundText>>, stdout |-> "", stderr |-> proc.stderr,
          returncode |-> proc.returncode, command |-> full_command, timestamp |-> Now,
          kubectl_available |-> FALSE]
    ELSE IF proc.returncode # 0 /\ proc.stderr \cap ConnectionPhrases # {}
    THEN [success |-> FALSE, error |-> ConnectionErrorText(proc.stderr), stdout |-> "", stderr |-> proc.stderr,
          returncode |-> proc.returncode, command |-> full_command, timestamp |-> Now,
          cluster_accessible |-> FALSE]
    ELSE [success |-> proc.returncode = 0, stdout |-> proc.stdout, stderr |-> proc.stderr,
          returncode |-> proc.returncode, command |-> full_command, timestamp |-> Now,
          kubectl_available |-> TRUE, cluster_accessible |-> TRUE]

\* The three except clauses (lines 118-148).
KubectlUnexpectedMutant(full_command, timeout, proc) ==
    [raised |-> TRUE, value |-> [success |-> FALSE]]

KubectlUnexpected(full_command, timeout, proc) ==
    [raised |-> FALSE,
     value |-> [success |-> FALSE, error |-> <<ExceptionText>>, stdout |-> "", stderr |-> {ExceptionText},
                returncode |-> -1, command |-> IF proc.bound THEN full_command ELSE <<"kubectl">>,
                timestamp |-> Now]]

KubectlExceptResult(full_command, timeout, proc) ==
    IF proc.kind = "TimeoutExpired"
    THEN [raised |-> FALSE,
          value |-> [success |-> FALSE, error |-> TimedOutText(timeout), stdout |-> "", stderr |-> {"Timeout"},
                     returncode |-> -1, command |-> full_command, timestamp |-> Now]]
    ELSE IF proc.kind = "FileNotFoundError"
    THEN [raised |-> FALSE,
          value |-> [success |-> FALSE, error |-> <<KubectlNotFoundText>>, stdout |-> "",
                     stderr |-> {"kubectl command not found"}, returncode |-> -1, command |-> <<"kubectl">>,
                     timestamp |-> Now, kubectl_available |-> FALSE]]
    ELSE KubectlUnexpected(full_command, timeout, proc)

run_kubectl_command(kubeconfig_path, command, timeout, proc) ==
    LET full_command == get_kubectl_command(kubeconfig_path, command)
    IN  IF proc.kind = "exit"
        THEN [raised |-> FALSE, value |-> KubectlExitResult(full_command, proc)]
        ELSE KubectlExceptResult(full_command, timeout, proc)

(***************************************************************************)
(* Specification of the executor alone: any caller, any outcome.           *)
(***************************************************************************)
ExecCommands == {<<"get", "pods">>, <<"cluster-info">>, <<"delete", "pod", "nginx-1">>}

ExecTimeouts == {5, 10, 30}

NoCall == [kind |-> "none"]

ExecCalls ==
    {[kind |-> "run", kubeconfig_path |-> k, command |-> c, timeout |-> t, proc |-> p] :
        k \in {DefaultKubeconfig, CustomKubeconfig}, c \in ExecCommands, t \in ExecTimeouts, p \in ProcOutcomes}

ExecIdle ==
    /\ exec_call = NoCall
    /\ exec_result = NoCall

RunKubectl ==
    /\ exec_call.kind = "run" /\ exec_result = NoCall
    /\ exec_result' = run_kubectl_command(exec_call.kubeconfig_path, exec_call.command, exec_call.timeout, exec_call.proc)
    /\ UNCHANGED <<exec_call, llm_call, llm_result, providerVars, chatVars>>

NextExec == RunKubectl

(***************************************************************************)
(* LLM provider abstraction.  Two copies of the module exist:              *)
(* src/llm_client.py ("root") and src/project/llm_client.py ("project");   *)
(* each has the backends OpenRouterProvider and LocalLLMProvider.          *)
(***************************************************************************)
Impls == {"root", "project"}

Backends == {"openrouter", "local"}

\* One requests.post: it times out, the connection fails, or a response
\* with a status code and a body arrives.  A body is a JSON document with
\* choices[0].message.content, or not JSON, or JSON without that path, or
\* JSON whose content is null.
BodyKinds == {"json_ok", "not_json", "missing_key", "null_content"}

StatusCodes == {200, 204, 429, 500}

NetFailure(kind) == [kind |-> kind, status |-> 0, body |-> "none", content |-> <<>>]

NetResponse(status, body, content) == [kind |-> "response", status |-> status, body |-> body, content |-> content]

\* The content of a body matters only in a 200 reply whose body parses.
NetOutcomes(Contents) ==
    {NetFailure("timeout"), NetFailure("connection_error")}
    \cup {NetResponse(st, b, <<>>) : st \in StatusCodes \ {200}, b \in BodyKinds}
    \cup {NetResponse(200, b, <<>>) : b \in BodyKinds \ {"json_ok"}}
    \cup {NetResponse(200, "json_ok", c) : c \in Contents}

\* requests.post raised (Timeout, ConnectionError): control goes to except.
PostRaises(net) == net.kind # "response"

\* response.json() or result['choices'][0]['message']['content'] raised.
ParseRaises(net) == net.body \in {"not_json", "missing_key"}

NoneValue == "<None>"

\* ---- command extraction, src/llm_client.py lines 236-250 ----
IsSeparator(line, i) == i < Len(line) /\ line[i] = "kubectl"

\* 'kubectl ' in line
HasKubectl(line) == \E i \in 1..Len(line) : IsSeparator(line, i)

\* line.split('kubectl '): the runs of tokens between separators, in order.
RECURSIVE SplitParts(_, _, _)
SplitParts(line, i, cur) ==
    IF i > Len(line) THEN <<cur>>
    ELSE IF IsSeparator(line, i) THEN <<cur>> \o SplitParts(line, i + 1, <<>>)
    ELSE SplitParts(line, i + 1, Append(cur, line[i]))

RECURSIVE PartsToCommands(_)
PartsToCommands(parts) ==
    IF parts = <<>> THEN <<>>
    ELSE (IF Head(parts) # <<>> THEN <<(<<"kubectl">> \o Head(parts))>> ELSE <<>>) \o PartsToCommands(Tail(parts))

RootLineCommands(line) ==
    IF HasKubectl(line) THEN PartsToCommands(SplitParts(line, 1, <<>>)) ELSE <<>>

RECURSIVE RootExtract(_)
RootExtract(content) ==
    IF content = <<>> THEN <<>> ELSE RootLineCommands(Head(content)) \o RootExtract(Tail(content))

\* ---- extract_kubectl_commands, src/project/llm_client.py lines 11-45 ----
IsBullet(tok) == tok \in {"-", "*"}

IsNumberMarker(tok) == tok \in {"1.", "2.", "3."}

\* re.sub(r'^[-*]\s+', '', line) then re.sub(r'^\d+\.\s+', '', line)
StripBullet(line) == IF Len(line) > 1 /\ IsBullet(line[1]) THEN Tail(line) ELSE line

StripNumber(line) == IF Len(line) > 1 /\ IsNumberMarker(line[1]) THEN Tail(line) ELSE line

FirstKubectl(line) == CHOOSE i \in 1..Len(line) : IsSeparator(line, i) /\ \A j \in 1..(i - 1) : ~IsSeparator(line, j)

ProjectLineCommands(raw) ==
    LET line == StripNumber(StripBullet(raw))
    IN  IF line = <<>> THEN <<>>
        ELSE IF Len(line) > 1 /\ line[1] = "kubectl" THEN <<line>>
        ELSE IF HasKubectl(line) THEN <<SubSeq(line, FirstKubectl(line), Len(line))>>
        ELSE <<>>

RECURSIVE ProjectExtractAll(_)
ProjectExtractAll(content) ==
    IF content = <<>> THEN <<>> ELSE ProjectLineCommands(Head(content)) \o ProjectExtractAll(Tail(content))

ExtractCap == 3

extract_kubectl_commands(content) == Take(ProjectExtractAll(content), ExtractCap)

\* ---- the four capability methods ----
SuggestCap == 3

FollowUpCap == 2

SuggestParsedMutant(impl, net) ==
    IF impl = "root" THEN RootExtract(net.content) ELSE extract_kubectl_commands(net.content)

SuggestParsed(impl, net) ==
    IF impl = "root" THEN Take(RootExtract(net.content), SuggestCap) ELSE extract_kubectl_commands(net.content)

FollowUpParsed(impl, net) ==
    IF impl = "root" THEN Take(RootExtract(net.content), FollowUpCap) ELSE extract_kubectl_commands(net.content)

\* What the except clause of a suggestion method does with an exception
\* (logger.error, return []).
SuggestOnExceptionMutant(impl) == [raised |-> TRUE, value |-> <<>>]

SuggestOnException(impl) == [raised |-> FALSE, value |-> <<>>]

OpenRouter_suggest_commands(impl, net) ==
    IF PostRaises(net) THEN SuggestOnException(impl)
    ELSE IF net.status = 200
         THEN IF ParseRaises(net) \/ net.body = "null_content"
              THEN SuggestOnException(impl)
              ELSE [raised |-> FALSE, value |-> SuggestParsed(impl, net)]
         ELSE [raised |-> FALSE, value |-> <<>>]

Local_suggest_commands(impl, net) ==
    IF PostRaises(net) THEN SuggestOnException(impl)
    ELSE IF net.status = 200
         THEN IF ParseRaises(net) \/ net.body = "null_content"
              THEN SuggestOnException(impl)
              ELSE [raised |-> FALSE, value |-> SuggestParsed(impl, net)]
         ELSE [raised |-> FALSE, value |-> <<>>]

suggest_commands(impl, backend, net) ==
    IF backend = "openrouter" THEN OpenRouter_suggest_commands(impl, net) ELSE Local_suggest_commands(impl, net)

OpenRouter_suggest_follow_up_commands(impl, net) ==
    IF PostRaises(net) THEN SuggestOnException(impl)
    ELSE IF net.status = 200
         THEN IF ParseRaises(net) \/ net.body = "null_content"
              THEN SuggestOnException(impl)
              ELSE [raised |-> FALSE, value |-> FollowUpParsed(impl, net)]
         ELSE [raised |-> FALSE, value |-> <<>>]

Local_suggest_follow_up_commands(impl, net) ==
    IF PostRaises(net) THEN SuggestOnException(impl)
    ELSE IF net.status = 200
         THEN IF ParseRaises(net) \/ net.body = "null_content"
              THEN SuggestOnException(impl)
              ELSE [raised |-> FALSE, value |-> FollowUpParsed(impl, net)]
         ELSE [raised |-> FALSE, value |-> <<>>]

suggest_follow_up_commands(impl, backend, net) ==
    IF backend = "openrouter" THEN OpenRouter_suggest_follow_up_commands(impl, net) ELSE Local_suggest_follow_up_commands(impl, net)

FallbackClusterHealth == "fallback: cluster health commands"

FallbackPodAnalysis == "fallback: pod analysis commands"

FallbackGeneric == "fallback: try again later, basic kubectl commands"

generate_enhanced_fallback_response(intent_type) ==
    IF intent_type = "cluster_health" THEN FallbackClusterHealth
    ELSE IF intent_type = "pod_analysis" THEN FallbackPodAnalysis
    ELSE FallbackGeneric

\* LocalLLMProvider delegates to a fresh OpenRouterProvider (lines 1084-1088).
AnalyzeFallback(backend) == generate_enhanced_fallback_response("analysis")

\* The value returned for a 200 reply whose body has the content path.
AnalyzeContent(net) == IF net.body = "null_content" THEN NoneValue ELSE net.content

\* the else branch of "if response.status_code == 200"
AnalyzeOnStatusMutant(backend) == [raised |-> TRUE, value |-> <<"HTTPError">>]

AnalyzeOnStatus(backend) == [raised |-> FALSE, value |-> AnalyzeFallback(backend)]

OpenRouter_analyze_command_outputs(impl, net) ==
    IF PostRaises(net) THEN [raised |-> FALSE, value |-> AnalyzeFallback("openrouter")]
    ELSE IF net.status = 200
         THEN IF ParseRaises(net) THEN [raised |-> FALSE, value |-> AnalyzeFallback("openrouter")]
              ELSE [raised |-> FALSE, value |-> AnalyzeContent(net)]
         ELSE AnalyzeOnStatus("openrouter")

Local_analyze_command_outputs(impl, net) ==
    IF PostRaises(net) THEN [raised |-> FALSE, value |-> AnalyzeFallback("local")]
    ELSE IF net.status = 200
         THEN IF ParseRaises(net) THEN [raised |-> FALSE, value |-> AnalyzeFallback("local")]
              ELSE [raised |-> FALSE, value |-> AnalyzeContent(net)]
         ELSE AnalyzeOnStatus("local")

analyze_command_outputs(impl, backend, net) ==
    IF backend = "openrouter" THEN OpenRouter_analyze_command_outputs(impl, net) ELSE Local_analyze_command_outputs(impl, net)

OpenRouter_test_connection(impl, net) ==
    IF PostRaises(net)
    THEN [raised |-> FALSE, value |-> [success |-> FALSE, message |-> <<"OpenRouter connection failed: ", net.kind>>]]
    ELSE IF net.status = 200
         THEN [raised |-> FALSE, value |-> [success |-> TRUE, message |-> <<"OpenRouter connection successful">>]]
         ELSE [raised |-> FALSE, value |-> [success |-> FALSE, message |-> <<"OpenRouter API error: ", net.status>>]]

Local_test_connection(impl, net) ==
    IF PostRaises(net)
    THEN [raised |-> FALSE, value |-> [success |-> FALSE, message |-> <<"Local LLM connection failed: ", net.kind>>]]
    ELSE IF net.status = 200
         THEN [raised |-> FALSE, value |-> [success |-> TRUE, message |-> <<"Local LLM connection successful">>]]
         ELSE [raised |-> FALSE, value |-> [success |-> FALSE, message |-> <<"Local LLM API error: ", net.status>>]]

test_connection(impl, backend, net) ==
    IF backend = "openrouter" THEN OpenRouter_test_connection(impl, net) ELSE Local_test_connection(impl, net)

(***************************************************************************)
(* Specification of the provider methods alone: any reply, any outcome.    *)
(***************************************************************************)
MaxReplyLines == 4

ReplyLines ==
    { <<"kubectl", "get", "pods">>,
      <<"-", "kubectl", "describe", "pod", "nginx-1">>,
      <<"1.", "kubectl", "logs", "nginx-1">>,
      <<"Run:", "kubectl", "delete", "pod", "nginx-1">>,
      <<"Commands:">> }

SeqsUpTo(S, n) == UNION {[1..k -> S] : k \in 0..n}

ReplyContents == SeqsUpTo(ReplyLines, MaxReplyLines)

AnalysisContents == {"analysis text"}

LLMCall(kind, impl, backend, net) == [kind |-> kind, impl |-> impl, backend |-> backend, net |-> net]

LLMCalls ==
    {LLMCall(m, i, b, n) : m \in {"suggest_commands", "suggest_follow_up_commands"}, i \in Impls, b \in Backends, n \in NetOutcomes(ReplyContents)}
    \cup {LLMCall(m, i, b, n) : m \in {"analyze_command_outputs", "test_connection"}, i \in Impls, b \in Backends, n \in NetOutcomes(AnalysisContents)}

LLMIdle ==
    /\ llm_call = NoCall
    /\ llm_result = NoCall

CallSuggest ==
    /\ llm_call.kind = "suggest_commands" /\ llm_result = NoCall
    /\ llm_result' = suggest_commands(llm_call.impl, llm_call.backend, llm_call.net)
    /\ UNCHANGED <<exec_call, exec_result, llm_call, providerVars, chatVars>>

CallFollowUp ==
    /\ llm_call.kind = "suggest_follow_up_commands" /\ llm_result = NoCall
    /\ llm_result' = suggest_follow_up_commands(llm_call.impl, llm_call.backend, llm_call.net)
    /\ UNCHANGED <<exec_call, exec_result, llm_call, providerVars, chatVars>>

CallAnalyze ==
    /\ llm_call.kind = "analyze_command_outputs" /\ llm_result = NoCall
    /\ llm_result' = analyze_command_outputs(llm_call.impl, llm_call.backend, llm_call.net)
    /\ UNCHANGED <<exec_call, exec_result, llm_call, providerVars, chatVars>>

CallTestConnection ==
    /\ llm_call.kind = "test_connection" /\ llm_result = NoCall
    /\ llm_result' = test_connection(llm_call.impl, llm_call.backend, llm_call.net)
    /\ UNCHANGED <<exec_call, exec_result, llm_call, providerVars, chatVars>>

NextLLM == CallSuggest \/ CallFollowUp \/ CallAnalyze \/ CallTestConnection

(***************************************************************************)
(* A provider instance and the calls made on it (src/llm_client.py).  The  *)
(* instance holds what __init__ assigns; provider_calls is the log of the  *)
(* calls made on it, each with its arguments, the reply of the backend,    *)
(* the branch taken and the value returned.                                *)
(***************************************************************************)
NoProvider == [class |-> "none"]

ProviderIdle ==
    /\ provider = NoProvider
    /\ provider_calls = <<>>

\* OpenRouterProvider.__init__, lines 41-51
OpenRouterProvider(api_key, model) ==
    [class |-> "openrouter", api_url |-> <<"https://openrouter.ai/api/v1/chat/completions">>, api_key |-> api_key,
     model |-> model, headers |-> [Authorization |-> <<"Bearer ", api_key>>, ContentType |-> "application/json"]]

\* LocalLLMProvider.__init__, lines 671-678
LocalLLMProvider(endpoint_url, model) ==
    [class |-> "local", endpoint_url |-> endpoint_url, api_url |-> <<endpoint_url, "/v1/chat/completions">>,
     model |-> model, headers |-> [ContentType |-> "application/json"]]

\* lines 309-319 and 986-996: the branch analyze_command_outputs takes
AnalyzePath(net) ==
    IF PostRaises(net) THEN "except"
    ELSE IF net.status = 200 THEN (IF ParseRaises(net) THEN "except" ELSE "content")
    ELSE "status"

\* One call of self.analyze_command_outputs: the value returned, the branch
\* taken and the instance as the call leaves it (no statement of the method
\* assigns to self).
InstanceAnalyzeMutant(self, user_question, command_outputs, history, net) ==
    IF \E i \in 1..Len(provider_calls) : PostRaises(provider_calls[i].net)
    THEN [value |-> AnalyzeFallback(self.class), path |-> "skipped", self |-> self]
    ELSE [value |-> analyze_command_outputs("root", self.class, net).value, path |-> AnalyzePath(net), self |-> self]

InstanceAnalyze(self, user_question, command_outputs, history, net) ==
    [value |-> analyze_command_outputs("root", self.class, net).value, path |-> AnalyzePath(net), self |-> self]

\* The other methods, as far as they touch the instance: none assigns to self.
InstanceSuggest(self, net) == [value |-> suggest_commands("root", self.class, net).value, path |-> "suggest", self |-> self]

InstanceFollowUp(self, net) ==
    [value |-> suggest_follow_up_commands("root", self.class, net).value, path |-> "follow_up", self |-> self]

InstanceTestConnection(self, net) == [value |-> test_connection("root", self.class, net).value, path |-> "test", self |-> self]

ProviderCall(method, args, net, out) == [method |-> method, args |-> args, net |-> net, path |-> out.path, value |-> out.value]

\* ---- inputs ----
MaxProviderCalls == 3

ProviderInstances == {OpenRouterProvider("key", "minimax/minimax-01"), LocalLLMProvider("http://localhost:8080", "default")}

AnalyzeQuestions == {"why is my pod failing", "list the pods"}

AnalyzeOutputs ==
    {<<>>, <<[key |-> <<"kubectl", "get", "pods">>, value |-> [success |-> TRUE, stdout |-> "OUT", stderr |-> ""]]>>}

AnalyzeHistories == {<<>>, <<[role |-> "user", message |-> "why is my pod failing"]>>}

ProviderNets == {NetFailure("timeout"), NetResponse(500, "json_ok", "analysis text"), NetResponse(200, "json_ok", "analysis text")}

OtherMethods == {"suggest_commands", "suggest_follow_up_commands", "test_connection"}

\* ---- the calls ----
CreateProvider ==
    /\ provider = NoProvider
    /\ provider' \in ProviderInstances
    /\ UNCHANGED <<provider_calls, exec_call, exec_result, llm_call, llm_result, chatVars>>

AnalyzeOnInstance ==
    /\ provider # NoProvider /\ Len(provider_calls) < MaxProviderCalls
    /\ \E q \in AnalyzeQuestions, o \in AnalyzeOutputs, h \in AnalyzeHistories, net \in ProviderNets :
          LET out == InstanceAnalyze(provider, q, o, h, net)
          IN  /\ provider' = out.self
              /\ provider_calls' = Append(provider_calls, ProviderCall("analyze_command_outputs", <<q, o, h>>, net, out))
    /\ UNCHANGED <<exec_call, exec_result, llm_call, llm_result, chatVars>>

OtherCallOnInstance ==
    /\ provider # NoProvider /\ Len(provider_calls) < MaxProviderCalls
    /\ \E net \in {NetFailure("timeout"), NetResponse(200, "json_ok", <<>>)} :
          \E method \in OtherMethods :
              LET out == IF method = "suggest_commands" THEN InstanceSuggest(provider, net)
                         ELSE IF method = "suggest_follow_up_commands" THEN InstanceFollowUp(provider, net)
                         ELSE InstanceTestConnection(provider, net)
              IN  /\ provider' = out.self
                  /\ provider_calls' = Append(provider_calls, ProviderCall(method, <<>>, net, out))
    /\ UNCHANGED <<exec_call, exec_result, llm_call, llm_result, chatVars>>

NextProvider == CreateProvider \/ AnalyzeOnInstance \/ OtherCallOnInstance

(***************************************************************************)
(* The /chat endpoint (src/app.py, chat).  One worker thread serves one    *)
(* request; a step of a worker runs from one blocking call (database,      *)
(* LLM provider, subprocess) to the next, which is where the threads of    *)
(* the server interleave.  turn[w] holds the locals of worker w.           *)
(***************************************************************************)
MaxWorkers == 2

Workers == 1..MaxWorkers

\* app.py imports LLMClientFactory from src/llm_client.py.
ChatImpl == "root"

CommandTimeout == 30

EmptyDict == <<>>

\* The result of classify_question (question_classifier.py is not part of
\* src/): the attributes the handler reads.
ClassificationResult(question_type, suggested_max_commands, follow_up_allowed) ==
    [question_type |-> question_type, suggested_max_commands |-> suggested_max_commands,
     follow_up_allowed |-> follow_up_allowed, complexity_score |-> "complexity_score", confidence |-> "confidence",
     classification_method |-> "classification_method", reasoning |-> "reasoning", strategy_type |-> "strategy_type"]

NoClassification == ClassificationResult("", 0, FALSE)

NoResponse == [status |-> 0]

IdleTurn ==
    [pc |-> "idle", session_id |-> "", user_id |-> "", user_message |-> "", user_prefs |-> EmptyDict,
     db_history |-> <<>>, backend |-> "", classification |-> NoClassification, max_commands |-> 0,
     follow_up_allowed |-> FALSE, provider_suggestions |-> <<>>, suggested_commands |-> <<>>,
     kubeconfig_path |-> "", command_outputs |-> <<>>, executed_commands |-> <<>>,
     follow_up_commands |-> <<>>, next_cmd |-> 1, bot_response |-> "", analysis_type |-> "",
     response |-> NoResponse, events |-> <<>>, llm_provider |-> NoProvider, llm_calls |-> <<>>]

\* ---- Python value semantics used by the handler ----
\* s[:n]
Slice(s, n) == IF n >= 0 THEN Take(s, n) ELSE Take(s, IF Len(s) + n > 0 THEN Len(s) + n ELSE 0)

\* d[k] = v on an insertion-ordered dict
DictSet(d, k, v) ==
    IF \E i \in 1..Len(d) : d[i].key = k
    THEN [i \in 1..Len(d) |-> IF d[i].key = k THEN [key |-> k, value |-> v] ELSE d[i]]
    ELSE Append(d, [key |-> k, value |-> v])

DictKeys(d) == {d[i].key : i \in 1..Len(d)}

\* ---- persistence collaborator (database.py is not part of src/) ----
ChatRow(user_id, session_id, role, message, commands_executed, classification_info) ==
    [user_id |-> user_id, session_id |-> session_id, role |-> role, message |-> message,
     commands_executed |-> commands_executed, classification_info |-> classification_info]

RECURSIVE get_chat_history(_, _, _)
get_chat_history(rows, user_id, session_id) ==
    IF rows = <<>> THEN <<>>
    ELSE (IF Head(rows).user_id = user_id /\ Head(rows).session_id = session_id THEN <<Head(rows)>> ELSE <<>>)
         \o get_chat_history(Tail(rows), user_id, session_id)

\* ---- pieces of the handler ----
\* lines 815-822: the cached copy of a stored message
CachedTurn(msg) == [role |-> msg.role, message |-> msg.message, timestamp |-> Now]

LoadedTurns(rows) == [i \in 1..Len(rows) |-> CachedTurn(rows[i])]

\* lines 825-829
UserTurn(user_message) == [role |-> "user", message |-> user_message, timestamp |-> Now]

\* lines 917-922, 939-944 and 1069-1074: the classification as it is stored
ClassificationInfo(c) ==
    [type |-> c.question_type, complexity_score |-> c.complexity_score, confidence |-> c.confidence,
     method |-> c.classification_method]

\* lines 951-957 and 1083-1089
ClassificationWithReasoning(c) ==
    [type |-> c.question_type, complexity_score |-> c.complexity_score, confidence |-> c.confidence,
     method |-> c.classification_method, reasoning |-> c.reasoning]

\* lines 1096-1105
ClassificationFull(c) ==
    [type |-> c.question_type, complexity_score |-> c.complexity_score, confidence |-> c.confidence,
     method |-> c.classification_method, reasoning |-> c.reasoning, strategy |-> c.strategy_type,
     max_commands_suggested |-> c.suggested_max_commands, follow_up_allowed |-> c.follow_up_allowed]

\* lines 934-946 and 1078-1091
AssistantTurnMutant(t) == [role |-> "assistant", message |-> t.bot_response, timestamp |-> Now]

AssistantTurn(t) ==
    [role |-> "assistant", message |-> t.bot_response, timestamp |-> Now,
     commands_executed |-> t.executed_commands,
     classification |-> IF t.analysis_type = "advice_only" THEN ClassificationInfo(t.classification)
                        ELSE ClassificationWithReasoning(t.classification),
     analysis_type |-> t.analysis_type]

\* lines 834-838
NoConfigResponse == [status |-> 400, error |-> <<"No active LLM configuration found">>, requires_setup |-> TRUE]

\* lines 851-856
ProviderInitFailedResponse(reason) ==
    [status |-> 500, error |-> <<"Failed to initialize LLM provider: ", reason>>, requires_setup |-> TRUE]

\* lines 1111-1116
InternalErrorResponse ==
    [status |-> 500, error |-> <<"Internal server error">>, message |-> "Failed to process your request. Please try again."]

\* lines 948-961 and 1093-1109
ChatResponse(t) ==
    [status |-> 200, response |-> t.bot_response, commands_executed |-> t.executed_commands,
     classification |-> IF t.analysis_type = "advice_only" THEN ClassificationWithReasoning(t.classification)
                        ELSE ClassificationFull(t.classification),
     session_id |-> t.session_id, timestamp |-> Now, analysis_type |-> t.analysis_type]

create_provider_errorMutant(config) ==
    IF config.provider = "other" THEN "Unsupported provider type" ELSE ""

\* LLMClientFactory.create_provider: the reason it raises ValueError, or "".
create_provider_error(config) ==
    IF config.provider = "openrouter"
    THEN (IF config.api_key THEN "" ELSE "OpenRouter provider requires an API key")
    ELSE IF config.provider = "local" THEN ""
    ELSE "Unsupported provider type"

\* LLMClientFactory.create_provider (src/llm_client.py lines 1094-1115) called
\* at app.py line 849: a new object on every call, here told apart by the
\* request that made the call.
create_provider(w, config) ==
    [instance |-> w,
     object |-> IF config.provider = "openrouter"
                THEN OpenRouterProvider(config.api_key, Get(config, "model", "minimax/minimax-01"))
                ELSE LocalLLMProvider(Get(config, "endpoint_url", "http://localhost:8080"), Get(config, "model", "default"))]

\* llm_provider, the local variable the calls of lines 866, 884, 897, 1011
\* and 1049 are made on
ProviderForCallMutant(t) ==
    [t.llm_provider EXCEPT !.object = create_provider(t.llm_provider.instance, active_llm_config).object]

ProviderForCall(t) == t.llm_provider

LLMCalled(t, method) == Append(t.llm_calls, [method |-> method, provider |-> ProviderForCall(t)])

\* lines 874-880
Truthy(n) == n # 0

EffectiveBudget(classification, user_prefs) ==
    IF user_prefs # EmptyDict /\ Truthy(Get(user_prefs, "max_commands_preference", 0))
    THEN (IF classification.suggested_max_commands < user_prefs.max_commands_preference
          THEN classification.suggested_max_commands ELSE user_prefs.max_commands_preference)
    ELSE classification.suggested_max_commands

\* lines 945 and 1089: the analysis_type of the turn
AnalysisTypeMutant(suggested_commands) == "command_based"

AnalysisType(suggested_commands) == IF suggested_commands = <<>> THEN "advice_only" ELSE "command_based"

LimitCommandsMutant(suggested_commands, max_commands) ==
    IF suggested_commands # <<>> /\ Len(suggested_commands) > max_commands /\ max_commands > 0
    THEN Slice(suggested_commands, max_commands)
    ELSE suggested_commands

\* lines 889-892
LimitCommands(suggested_commands, max_commands) ==
    IF suggested_commands # <<>> /\ Len(suggested_commands) > max_commands
    THEN Slice(suggested_commands, max_commands)
    ELSE suggested_commands

\* lines 1017-1019
FollowUpLimit == 2

LimitFollowUps(follow_up_commands) ==
    IF follow_up_commands # <<>> /\ Len(follow_up_commands) > FollowUpLimit
    THEN Slice(follow_up_commands, FollowUpLimit)
    ELSE follow_up_commands

\* lines 1007-1008
FollowUpWantedMutant(t, command_outputs) == t.follow_up_allowed /\ command_outputs # <<>>

FollowUpWanted(t, command_outputs) ==
    /\ t.follow_up_allowed
    /\ command_outputs # <<>>
    /\ t.classification.question_type \in {"MODERATE_INVESTIGATION", "DEEP_ANALYSIS"}

Event(op, detail) == [op |-> op, detail |-> detail]

SetTurn(w, t) == turn' = [turn EXCEPT ![w] = t]

\* except Exception (lines 1111-1116): the generic error response
Fail(t, cause) == [t EXCEPT !.pc = "done", !.response = InternalErrorResponse, !.events = Append(@, Event("error", cause))]

\* lines 865, 886, 900, 1014, 1052: app.conversation_history[session_id]
\* raises KeyError when the session is not cached
HistoryCached(t) == t.session_id \in DOMAIN conversation_history

\* ---- the steps of one request ----
\* lines 797-809: the request is read and the user's preferences fetched
Receive(w, D) ==
    /\ turn[w].pc = "idle"
    /\ \E s \in D.sessions, u \in D.users, p \in D.prefs :
          SetTurn(w, [turn[w] EXCEPT !.pc = "init_history", !.session_id = s, !.user_id = u,
                                     !.user_message = <<"question", w>>, !.user_prefs = p])
    /\ UNCHANGED <<conversation_history, db_chat, restVars>>

\* lines 811-829 when the session is cached: the user turn is appended;
\* when it is not: the stored history is read from the database
InitHistory(w) ==
    /\ turn[w].pc = "init_history"
    /\ LET t == turn[w]
       IN  IF t.session_id \in DOMAIN conversation_history
           THEN /\ conversation_history' = [conversation_history EXCEPT ![t.session_id] = Append(@, UserTurn(t.user_message))]
                /\ SetTurn(w, [t EXCEPT !.pc = "get_config", !.events = Append(@, Event("append", "user"))])
           ELSE /\ SetTurn(w, [t EXCEPT !.pc = "install_history", !.db_history = get_chat_history(db_chat, t.user_id, t.session_id)])
                /\ UNCHANGED conversation_history
    /\ UNCHANGED <<db_chat, restVars>>

\* lines 815-829 after the database read: the loaded list is installed
\* under the session id and the user turn appended to it
InstallHistoryMutant(w) ==
    /\ turn[w].pc = "install_history"
    /\ LET t == turn[w]
           installed == Append(LoadedTurns(t.db_history), UserTurn(t.user_message))
       IN  /\ conversation_history' = [s \in {t.session_id} |-> installed]
           /\ SetTurn(w, [t EXCEPT !.pc = "get_config", !.db_history = <<>>, !.events = Append(@, Event("append", "user"))])
    /\ UNCHANGED <<db_chat, restVars>>

InstallHistory(w) ==
    /\ turn[w].pc = "install_history"
    /\ LET t == turn[w]
           installed == Append(LoadedTurns(t.db_history), UserTurn(t.user_message))
       IN  /\ conversation_history' =
                 [s \in DOMAIN conversation_history \cup {t.session_id} |->
                     IF s = t.session_id THEN installed ELSE conversation_history[s]]
           /\ SetTurn(w, [t EXCEPT !.pc = "get_config", !.db_history = <<>>, !.events = Append(@, Event("append", "user"))])
    /\ UNCHANGED <<db_chat, restVars>>

\* lines 831-859: the active LLM configuration is read and a provider built
GetConfig(w, D) ==
    /\ turn[w].pc = "get_config"
    /\ LET t == turn[w]
           config == active_llm_config
       IN  \E ok \in D.db_ok :
              IF config.provider = "none"
              THEN SetTurn(w, [t EXCEPT !.pc = "done", !.response = NoConfigResponse])
              ELSE IF create_provider_error(config) # ""
              THEN SetTurn(w, [t EXCEPT !.pc = "done", !.response = ProviderInitFailedResponse(create_provider_error(config))])
              ELSE IF ~ok
              THEN SetTurn(w, Fail(t, "update_api_key_usage"))
              ELSE SetTurn(w, [t EXCEPT !.pc = "classify", !.backend = config.provider,
                                        !.llm_provider = create_provider(w, config)])
    /\ UNCHANGED <<conversation_history, db_chat, restVars>>

\* lines 861-880: classification, then the command budget
Classify(w, D) ==
    /\ turn[w].pc = "classify"
    /\ LET t == turn[w]
       IN  IF ~HistoryCached(t) THEN SetTurn(w, Fail(t, "KeyError")) ELSE
           \E c \in D.classifications :
              SetTurn(w, [t EXCEPT !.pc = "suggest", !.classification = c,
                                   !.max_commands = EffectiveBudget(c, t.user_prefs),
                                   !.follow_up_allowed = c.follow_up_allowed,
                                   !.events = Append(@, Event("classify", <<>>)),
                                   !.llm_calls = LLMCalled(t, "classify_question")])
    /\ UNCHANGED <<conversation_history, db_chat, restVars>>

\* The history list and the command_outputs dict are passed to the provider
\* by reference: what they hold once the method has returned.  The methods
\* read them (a slice copies, .items() iterates) and assign to neither.
ArgumentsAfterCallMutant(history, command_outputs) ==
    [history |-> Append(history, [role |-> "assistant", message |-> "suggested", timestamp |-> Now]),
     command_outputs |-> <<>>]

ArgumentsAfterCall(history, command_outputs) ==
    [history |-> history, command_outputs |-> command_outputs]

\* The cache once turn t has called a provider method with its cached list.
CacheAfterCall(t) ==
    IF HistoryCached(t)
    THEN [conversation_history EXCEPT ![t.session_id] = ArgumentsAfterCall(@, t.command_outputs).history]
    ELSE conversation_history

OutputsAfterCall(t) == ArgumentsAfterCall(conversation_history[t.session_id], t.command_outputs).command_outputs

\* lines 882-895 and 968-979: suggestions, truncation, and either the
\* advice short-circuit or the choice of the cluster client
Suggest(w, D) ==
    /\ turn[w].pc = "suggest"
    /\ LET t == turn[w]
       IN  IF ~HistoryCached(t) THEN SetTurn(w, Fail(t, "KeyError")) ELSE
           \E net \in D.suggest_replies :
              LET kubeconfig == active_kubeconfig
                  result == suggest_commands(ChatImpl, t.backend, net)
                  limited == LimitCommands(result.value, t.max_commands)
                  t1 == [t EXCEPT !.provider_suggestions = result.value, !.suggested_commands = limited,
                                  !.command_outputs = OutputsAfterCall(t),
                                  !.analysis_type = AnalysisType(limited),
                                  !.events = Append(@, Event("suggest", <<>>)),
                                  !.llm_calls = LLMCalled(t, "suggest_commands")]
              IN  IF result.raised
                  THEN SetTurn(w, Fail(t, "suggest_commands"))
                  ELSE IF limited = <<>>
                  THEN SetTurn(w, [t1 EXCEPT !.pc = "analyze"])
                  ELSE SetTurn(w, [t1 EXCEPT !.pc = "execute", !.kubeconfig_path = kubeconfig, !.next_cmd = 1])
    /\ conversation_history' = CacheAfterCall(turn[w])
    /\ UNCHANGED <<db_chat, restVars>>

\* lines 985 and 1027: k8s_client_to_use, the client built at 969-976
KubeconfigForCommandMutant(t) == active_kubeconfig

KubeconfigForCommand(t) == t.kubeconfig_path

\* lines 981-1003: one iteration of the primary loop
ExecuteFailsTurnMutant(output) == ~output.success

ExecuteFailsTurn(output) == FALSE

Execute(w, D) ==
    /\ turn[w].pc = "execute"
    /\ LET t == turn[w]
           cmd == t.suggested_commands[t.next_cmd]
       IN  \E proc \in D.procs, logged \in D.db_ok :
              LET output == run_kubectl_command(KubeconfigForCommand(t), Tail(cmd), CommandTimeout, proc).value
                  outputs == DictSet(t.command_outputs, cmd, output)
                  t1 == [t EXCEPT !.command_outputs = outputs, !.executed_commands = Append(@, cmd),
                                  !.events = Append(@, Event("execute", [phase |-> "primary", cmd |-> cmd, cmd_parts |-> Tail(cmd), cause |-> proc.cause, output |-> output]))]
              IN  IF ExecuteFailsTurn(output)
                  THEN SetTurn(w, Fail(t1, "command"))
                  ELSE IF ~logged
                  THEN SetTurn(w, Fail(t1, "log_activity"))
                  ELSE IF t.next_cmd < Len(t.suggested_commands)
                  THEN SetTurn(w, [t1 EXCEPT !.next_cmd = @ + 1])
                  ELSE IF FollowUpWanted(t, outputs)
                  THEN SetTurn(w, [t1 EXCEPT !.pc = "follow_up"])
                  ELSE SetTurn(w, [t1 EXCEPT !.pc = "analyze"])
    /\ UNCHANGED <<conversation_history, db_chat, restVars>>

\* lines 1010-1022: follow-up suggestions and their limit
FollowUp(w, D) ==
    /\ turn[w].pc = "follow_up"
    /\ LET t == turn[w]
       IN  IF ~HistoryCached(t) THEN SetTurn(w, Fail(t, "KeyError")) ELSE
           \E net \in D.follow_up_replies :
              LET result == suggest_follow_up_commands(ChatImpl, t.backend, net)
                  limited == LimitFollowUps(result.value)
                  t1 == [t EXCEPT !.follow_up_commands = limited, !.events = Append(@, Event("follow_up", <<>>)),
                                  !.command_outputs = OutputsAfterCall(t),
                                  !.llm_calls = LLMCalled(t, "suggest_follow_up_commands")]
              IN  IF result.raised
                  THEN SetTurn(w, Fail(t, "suggest_follow_up_commands"))
                  ELSE IF limited = <<>>
                  THEN SetTurn(w, [t1 EXCEPT !.pc = "analyze"])
                  ELSE SetTurn(w, [t1 EXCEPT !.pc = "execute_follow_up", !.next_cmd = 1])
    /\ conversation_history' = CacheAfterCall(turn[w])
    /\ UNCHANGED <<db_chat, restVars>>

\* lines 1024-1045: one iteration of the follow-up loop
ExecuteFollowUp(w, D) ==
    /\ turn[w].pc = "execute_follow_up"
    /\ LET t == turn[w]
           cmd == t.follow_up_commands[t.next_cmd]
       IN  \E proc \in D.follow_up_procs, logged \in D.db_ok :
              LET output == run_kubectl_command(KubeconfigForCommand(t), Tail(cmd), CommandTimeout, proc).value
                  t1 == [t EXCEPT !.command_outputs = DictSet(@, cmd, output), !.executed_commands = Append(@, cmd),
                                  !.events = Append(@, Event("execute", [phase |-> "follow_up", cmd |-> cmd, cmd_parts |-> Tail(cmd), cause |-> proc.cause, output |-> output]))]
              IN  IF ExecuteFailsTurn(output)
                  THEN SetTurn(w, Fail(t1, "command"))
                  ELSE IF ~logged
                  THEN SetTurn(w, Fail(t1, "log_activity"))
                  ELSE IF t.next_cmd < Len(t.follow_up_commands)
                  THEN SetTurn(w, [t1 EXCEPT !.next_cmd = @ + 1])
                  ELSE SetTurn(w, [t1 EXCEPT !.pc = "analyze"])
    /\ UNCHANGED <<conversation_history, db_chat, restVars>>

\* lines 897-901 and 1047-1053: the analysis call
AnalyzeMutant(w, D) ==
    /\ turn[w].pc = "analyze"
    /\ LET t == turn[w]
       IN  \E net \in D.analyze_replies :
              LET result == analyze_command_outputs(ChatImpl, t.backend, net)
                  t1 == [t EXCEPT !.bot_response = result.value,
                                  !.events = Append(@, Event("analyze", [outputs |-> t.command_outputs, net |-> net]))]
              IN  IF t.suggested_commands # <<>> /\ t.follow_up_commands = <<>>
                  THEN SetTurn(w, [t1 EXCEPT !.pc = "execute_follow_up", !.follow_up_commands = t.suggested_commands, !.next_cmd = 1])
                  ELSE SetTurn(w, [t1 EXCEPT !.pc = "save_user"])
    /\ UNCHANGED <<conversation_history, db_chat, restVars>>

Analyze(w, D) ==
    /\ turn[w].pc = "analyze"
    /\ LET t == turn[w]
       IN  IF ~HistoryCached(t) THEN SetTurn(w, Fail(t, "KeyError")) ELSE
           \E net \in D.analyze_replies :
              LET result == analyze_command_outputs(ChatImpl, t.backend, net)
              IN  IF result.raised
                  THEN SetTurn(w, Fail(t, "analyze_command_outputs"))
                  ELSE SetTurn(w, [t EXCEPT !.pc = "save_user", !.bot_response = result.value,
                                            !.command_outputs = OutputsAfterCall(t),
                                            !.events = Append(@, Event("analyze", [outputs |-> t.command_outputs, net |-> net])),
                                            !.llm_calls = LLMCalled(t, "analyze_command_outputs")])
    /\ conversation_history' = CacheAfterCall(turn[w])
    /\ UNCHANGED <<db_chat, restVars>>

\* lines 904-909 and 1056-1061: save_chat_message for the user turn
SaveUser(w, D) ==
    /\ turn[w].pc = "save_user"
    /\ LET t == turn[w]
       IN  \E saved \in D.db_ok :
              IF saved
              THEN /\ db_chat' = Append(db_chat, ChatRow(t.user_id, t.session_id, "user", t.user_message, <<>>, EmptyDict))
                   /\ SetTurn(w, [t EXCEPT !.pc = "save_assistant", !.events = Append(@, Event("save", "user"))])
              ELSE /\ SetTurn(w, Fail(t, "save_chat_message"))
                   /\ UNCHANGED db_chat
    /\ UNCHANGED <<conversation_history, restVars>>

\* lines 934-961 and 1077-1109: the assistant turn is appended to the
\* cached history and the response returned
AppendAndRespond(w, t) ==
    IF HistoryCached(t)
    THEN /\ conversation_history' = [conversation_history EXCEPT ![t.session_id] = Append(@, AssistantTurn(t))]
         /\ SetTurn(w, [t EXCEPT !.pc = "done", !.response = ChatResponse(t),
                                  !.events = @ \o <<Event("append", "assistant"), Event("respond", <<>>)>>])
    ELSE /\ SetTurn(w, Fail(t, "KeyError"))
         /\ UNCHANGED conversation_history

\* lines 911-923 and 1063-1075: save_chat_message for the assistant turn;
\* on the command path the response follows at once
SaveAssistant(w, D) ==
    /\ turn[w].pc = "save_assistant"
    /\ LET t == turn[w]
           t1 == [t EXCEPT !.events = Append(@, Event("save", "assistant"))]
       IN  \E saved \in D.db_ok :
              IF saved
              THEN /\ db_chat' = Append(db_chat, ChatRow(t.user_id, t.session_id, "assistant", t.bot_response, t.executed_commands,
                                                      ClassificationInfo(t.classification)))
                   /\ IF t.analysis_type = "advice_only"
                      THEN SetTurn(w, [t1 EXCEPT !.pc = "log_advice"]) /\ UNCHANGED conversation_history
                      ELSE AppendAndRespond(w, t1)
              ELSE /\ SetTurn(w, Fail(t, "save_chat_message"))
                   /\ UNCHANGED <<db_chat, conversation_history>>
    /\ UNCHANGED restVars

\* lines 925-961: log_activity on the advice path, then the response
LogAdvice(w, D) ==
    /\ turn[w].pc = "log_advice"
    /\ LET t == turn[w]
       IN  \E logged \in D.db_ok :
              IF logged
              THEN AppendAndRespond(w, t)
              ELSE SetTurn(w, Fail(t, "log_activity")) /\ UNCHANGED conversation_history
    /\ UNCHANGED <<db_chat, restVars>>

ChatStep(w, D) ==
    \/ Receive(w, D)
    \/ InitHistory(w)
    \/ InstallHistory(w)
    \/ GetConfig(w, D)
    \/ Classify(w, D)
    \/ Suggest(w, D)
    \/ Execute(w, D)
    \/ FollowUp(w, D)
    \/ ExecuteFollowUp(w, D)
    \/ Analyze(w, D)
    \/ SaveUser(w, D)
    \/ SaveAssistant(w, D)
    \/ LogAdvice(w, D)

\* ---- inputs ----
MaxSuggestedCommands == 2

PreferenceValues == {EmptyDict} \cup {[max_commands_preference |-> v] : v \in {-1, 0, 1, 2}}

QuestionTypes == {"SIMPLE_LOOKUP", "MODERATE_INVESTIGATION", "DEEP_ANALYSIS"}

Classifications ==
    {ClassificationResult(q, n, f) : q \in QuestionTypes, n \in 0..MaxSuggestedCommands, f \in BOOLEAN}

NoLLMConfig == [provider |-> "none", api_key |-> FALSE]

LLMConfigs ==
    {NoLLMConfig, [provider |-> "openrouter", api_key |-> TRUE], [provider |-> "openrouter", api_key |-> FALSE],
     [provider |-> "local", api_key |-> FALSE], [provider |-> "other", api_key |-> TRUE]}

GetPods == <<"kubectl", "get", "pods">>

DescribePod == <<"kubectl", "describe", "pod", "nginx-1">>

DeletePod == <<"kubectl", "delete", "pod", "nginx-1">>

\* Replies of the model to the suggestion prompts, one command per line.
SuggestContents ==
    {<<>>, <<GetPods>>, <<DeletePod>>, <<GetPods, DescribePod>>, <<GetPods, GetPods, DeletePod>>,
     <<GetPods, DescribePod, DeletePod, GetPods>>}

FollowUpContents ==
    {<<>>, <<GetPods>>, <<DeletePod>>, <<DescribePod, GetPods, DeletePod>>}

SuggestReplies(Contents) == {NetFailure("timeout"), NetResponse(500, "json_ok", <<>>)} \cup {NetResponse(200, "json_ok", c) : c \in Contents}

ChatProcs ==
    {ExitOutcome("ok", 0, "OUT", {}), ExitOutcome("resource_missing", 1, "", {NotFoundPhrase}),
     ExitOutcome("unreachable", 1, "", {"connection refused"}),
     RaiseOutcome("TimeoutExpired", "hang", TRUE), RaiseOutcome("FileNotFoundError", "binary_absent", TRUE)}

FollowUpProcs ==
    {ExitOutcome("ok", 0, "OUT", {}), ExitOutcome("command_failed", 1, "", {}), RaiseOutcome("FileNotFoundError", "binary_absent", TRUE)}

AnalyzeReplies ==
    {NetFailure("timeout"), NetResponse(500, "json_ok", "analysis text"), NetResponse(204, "json_ok", "analysis text"),
     NetResponse(200, "json_ok", "analysis text")}

TurnDomain ==
    [sessions |-> {"s1"}, users |-> {"alice"}, prefs |-> PreferenceValues, llm_configs |-> LLMConfigs,
     classifications |-> Classifications, suggest_replies |-> SuggestReplies(SuggestContents),
     follow_up_replies |-> SuggestReplies(FollowUpContents), analyze_replies |-> AnalyzeReplies,
     procs |-> ChatProcs, follow_up_procs |-> FollowUpProcs, kubeconfigs |-> {CustomKubeconfig}, db_ok |-> BOOLEAN]

\* Concurrent requests: fewer inputs per request, every session and user.
ConcDomain ==
    [sessions |-> {"s1", "s2"}, users |-> {"alice", "bob"}, prefs |-> {EmptyDict},
     llm_configs |-> {NoLLMConfig, [provider |-> "local", api_key |-> FALSE]},
     classifications |-> {ClassificationResult("MODERATE_INVESTIGATION", 1, TRUE)},
     suggest_replies |-> SuggestReplies({<<>>, <<GetPods>>}),
     follow_up_replies |-> SuggestReplies({<<DescribePod>>}), analyze_replies |-> AnalyzeReplies,
     procs |-> {ExitOutcome("ok", 0, "OUT", {})}, follow_up_procs |-> {ExitOutcome("ok", 0, "OUT", {})}, kubeconfigs |-> {DefaultKubeconfig, CustomKubeconfig},
     db_ok |-> BOOLEAN]

(***************************************************************************)
(* The /health endpoint and its cache (src/app.py, health_check), and the  *)
(* admin endpoints that change kubeconfigs.  time.time() is the variable   *)
(* clock; a last_check of 0 stands for None (both are falsy).              *)
(***************************************************************************)
\* line 203
CacheDuration == 30

TickSeconds == 20

MaxClock == 80

MaxKubeconfigOps == 2

\* kubeconfig_ops counts the successful kubeconfig operations; a result
\* carries the count at the time the active kubeconfig was read
\* (computed_ops) and at the time it was put into the cache (stored_ops).
NoHealthResult ==
    [status |-> "none", cached |-> FALSE, database |-> "", kubeconfig_path |-> "", computed_ops |-> 0, stored_ops |-> 0]

\* lines 200-204
EmptyHealthCache == [last_check |-> 0, result |-> NoHealthResult]

IdleHealth == [pc |-> "idle", received_ops |-> 0, current_time |-> 0, health_status |-> NoHealthResult,
               response |-> [code |-> 0, body |-> NoHealthResult]]

HealthIdle ==
    /\ health_cache = EmptyHealthCache
    /\ health = [w \in Workers |-> IdleHealth]
    /\ clock = TickSeconds
    /\ kubeconfig_ops = 0

\* lines 218-220
CacheValid(cache, current_time) ==
    /\ cache.last_check # 0
    /\ cache.result # NoHealthResult
    /\ current_time - cache.last_check < CacheDuration

\* line 227: the status code of a cached answer
CachedStatusCode(result) == 200

\* line 313
StatusCode(health_status) == IF health_status.status = "healthy" THEN 200 ELSE 503

\* lines 237-251 and 296-306: the database check sets the status; the
\* classifier and the database object exist in a running application
\* (create_app exits otherwise, lines 173-190)
HealthStatus(db_health) ==
    IF db_health = "raise" THEN "unhealthy"
    ELSE IF db_health # "healthy" THEN "degraded"
    ELSE "healthy"

SetHealth(w, h) == health' = [health EXCEPT ![w] = h]

\* lines 216-227: the cache is consulted
HealthReceive(w) ==
    /\ health[w].pc = "idle"
    /\ LET h == [health[w] EXCEPT !.current_time = clock, !.received_ops = kubeconfig_ops]
       IN  IF CacheValid(health_cache, clock)
           THEN SetHealth(w, [h EXCEPT !.pc = "done",
                                       !.response = [code |-> CachedStatusCode(health_cache.result),
                                                     body |-> [health_cache.result EXCEPT !.cached = TRUE]]])
           ELSE SetHealth(w, [h EXCEPT !.pc = "check"])
    /\ UNCHANGED <<health_cache, clock, kubeconfig_ops, active_kubeconfig, active_llm_config, turn, conversation_history, db_chat, pureVars>>

\* lines 229-306: the database, cluster and classifier checks
HealthCheck(w, D) ==
    /\ health[w].pc = "check"
    /\ \E db_health \in D.db_health :
          SetHealth(w, [health[w] EXCEPT !.pc = "store",
                           !.health_status = [status |-> HealthStatus(db_health), cached |-> FALSE, database |-> db_health,
                                              kubeconfig_path |-> active_kubeconfig, computed_ops |-> kubeconfig_ops,
                                              stored_ops |-> 0]])
    /\ UNCHANGED <<health_cache, clock, kubeconfig_ops, active_kubeconfig, active_llm_config, turn, conversation_history, db_chat, pureVars>>

\* lines 308-315: the result is cached and returned
HealthStore(w) ==
    /\ health[w].pc = "store"
    /\ LET health_status == [health[w].health_status EXCEPT !.stored_ops = kubeconfig_ops]
       IN  /\ health_cache' = [last_check |-> health[w].current_time, result |-> health_status]
           /\ SetHealth(w, [health[w] EXCEPT !.pc = "done",
                               !.response = [code |-> StatusCode(health_status), body |-> health_status]])
    /\ UNCHANGED <<clock, kubeconfig_ops, active_kubeconfig, active_llm_config, turn, conversation_history, db_chat, pureVars>>

HealthStep(w, D) ==
    \/ HealthReceive(w)
    \/ HealthCheck(w, D)
    \/ HealthStore(w)

\* time passes
Tick ==
    /\ clock + TickSeconds <= MaxClock
    /\ clock' = clock + TickSeconds
    /\ UNCHANGED <<health_cache, health, kubeconfig_ops, active_kubeconfig, active_llm_config, turn, conversation_history, db_chat, pureVars>>

\* What a successful kubeconfig operation does to the server: the health
\* cache is cleared (lines 1160-1161, 1215-1216, 1233-1234, 1255-1256).
KubeconfigChanged(success, active) ==
    /\ kubeconfig_ops < MaxKubeconfigOps
    /\ IF success
       THEN /\ health_cache' = EmptyHealthCache
            /\ active_kubeconfig' = active
            /\ kubeconfig_ops' = kubeconfig_ops + 1
       ELSE UNCHANGED <<health_cache, active_kubeconfig, kubeconfig_ops>>
    /\ UNCHANGED <<health, clock, active_llm_config, turn, conversation_history, db_chat, pureVars>>

\* lines 1132-1174: a new kubeconfig is stored; the active one stays
CreateKubeconfig(D) == \E success \in D.db_ok : KubeconfigChanged(success, active_kubeconfig)

\* lines 1192-1224: the path of a kubeconfig, possibly the active one, is rewritten
UpdateKubeconfig(D) == \E success \in D.db_ok, path \in D.kubeconfigs : KubeconfigChanged(success, path)

\* lines 1226-1245: a kubeconfig that is not the active one is removed
DeleteKubeconfig(D) == \E success \in D.db_ok : KubeconfigChanged(success, active_kubeconfig)

\* lines 1248-1265: app.db.set_active_kubeconfig(kubeconfig_id)
ActivateKubeconfig(D) == \E success \in D.db_ok, path \in D.kubeconfigs : KubeconfigChanged(success, path)

\* The server before any request, with one of the configurations active.
ChatStart(D) ==
    /\ turn = [w \in Workers |-> IdleTurn]
    /\ conversation_history = EmptyDict
    /\ db_chat = <<>>
    /\ active_llm_config \in D.llm_configs
    /\ active_kubeconfig \in D.kubeconfigs
    /\ HealthIdle

ChatIdle == ChatStart([llm_configs |-> {NoLLMConfig}, kubeconfigs |-> {DefaultKubeconfig}])

(***************************************************************************)
(* The admin endpoint that switches the active LLM configuration           *)
(* (src/app.py, activate_llm_config).                                      *)
(***************************************************************************)
\* lines 1642-1662: app.db.set_active_llm_config(config_id)
ActivateLLMConfig(D) ==
    /\ \E config \in D.llm_configs, success \in D.db_ok :
          active_llm_config' = IF success THEN config ELSE active_llm_config
    /\ UNCHANGED <<turn, conversation_history, db_chat, active_kubeconfig, healthVars, pureVars>>

\* Two requests while an admin switches between two working configurations.
AdminDomain ==
    [sessions |-> {"s1"}, users |-> {"alice"}, prefs |-> {EmptyDict},
     llm_configs |-> {[provider |-> "openrouter", api_key |-> TRUE], [provider |-> "local", api_key |-> FALSE]},
     classifications |-> {ClassificationResult("MODERATE_INVESTIGATION", 1, TRUE)},
     suggest_replies |-> SuggestReplies({<<>>, <<GetPods>>}),
     follow_up_replies |-> SuggestReplies({<<DescribePod>>}), analyze_replies |-> {NetResponse(200, "json_ok", "analysis text")},
     procs |-> {ExitOutcome("ok", 0, "OUT", {})}, follow_up_procs |-> {ExitOutcome("ok", 0, "OUT", {})},
     kubeconfigs |-> {DefaultKubeconfig}, db_ok |-> {TRUE}]

(***************************************************************************)
(* The endpoints that end or delete a chat session (src/app.py: logout,    *)
(* delete_user_history, delete_chat_session).  Each is one step: it makes  *)
(* at most one blocking call.                                              *)
(***************************************************************************)
\* ---- persistence collaborator (database.py is not part of src/) ----
\* the rows left by delete_chat_history(user_id, session_id=session_id)
delete_chat_history(rows, user_id, session_id) ==
    SelectSeq(rows, LAMBDA r : ~(r.user_id = user_id /\ (session_id = NoneValue \/ r.session_id = session_id)))

\* the rows left by delete_session(user_id, session_id)
delete_session(rows, user_id, session_id) ==
    SelectSeq(rows, LAMBDA r : ~(r.user_id = user_id /\ r.session_id = session_id))

\* del d[k]
DictDel(d, k) == IF DOMAIN d \ {k} = {} THEN EmptyDict ELSE [s \in DOMAIN d \ {k} |-> d[s]]

\* lines 425-453: the cached history under the cookie's value is dropped
logout(cookie) ==
    /\ conversation_history' =
          IF cookie # NoneValue /\ cookie \in DOMAIN conversation_history
          THEN DictDel(conversation_history, cookie)
          ELSE conversation_history
    /\ UNCHANGED <<turn, db_chat, restVars>>

\* lines 685-707: the stored rows are deleted
delete_user_history(user_id, session_id, success) ==
    /\ db_chat' = IF success THEN delete_chat_history(db_chat, user_id, session_id) ELSE db_chat
    /\ UNCHANGED <<turn, conversation_history, restVars>>

\* lines 765-786: the stored session is deleted
delete_chat_session(user_id, session_id, success) ==
    /\ db_chat' = IF success THEN delete_session(db_chat, user_id, session_id) ELSE db_chat
    /\ UNCHANGED <<turn, conversation_history, restVars>>

Logout(D) == \E cookie \in D.sessions \cup {NoneValue} : logout(cookie)

DeleteUserHistory(D) ==
    \E user_id \in D.users, session_id \in D.sessions \cup {NoneValue}, success \in D.db_ok :
        delete_user_history(user_id, session_id, success)

DeleteChatSession(D) ==
    \E user_id \in D.users, session_id \in D.sessions, success \in D.db_ok :
        delete_chat_session(user_id, session_id, success)

\* Two requests of one user on one session, and the session endpoints.
SessionDomain ==
    [sessions |-> {"s1"}, users |-> {"alice"}, prefs |-> {EmptyDict},
     llm_configs |-> {NoLLMConfig, [provider |-> "local", api_key |-> FALSE]},
     classifications |-> {ClassificationResult("MODERATE_INVESTIGATION", 1, TRUE)},
     suggest_replies |-> SuggestReplies({<<>>, <<GetPods>>}),
     follow_up_replies |-> SuggestReplies({<<DescribePod>>}), analyze_replies |-> {NetResponse(200, "json_ok", "analysis text")},
     procs |-> {ExitOutcome("ok", 0, "OUT", {})}, follow_up_procs |-> {ExitOutcome("ok", 0, "OUT", {})},
     kubeconfigs |-> {DefaultKubeconfig}, db_ok |-> BOOLEAN]

(***************************************************************************)
(* In-pod file operations (src/k8s_client.py, read_pod_file and            *)
(* browse_pod_files).  A path is a sequence of characters.                 *)
(***************************************************************************)
\* line 307; the backtick character is written "backtick"
InjectionChars == {"|", "&", ";", "backtick", "$", "(", ")"}

RECURSIVE LStrip(_)
LStrip(path) == IF path # <<>> /\ Head(path) = " " THEN LStrip(Tail(path)) ELSE path

RECURSIVE RStrip(_)
RStrip(path) == IF path # <<>> /\ path[Len(path)] = " " THEN RStrip(SubSeq(path, 1, Len(path) - 1)) ELSE path

\* str.strip()
Strip(path) == RStrip(LStrip(path))

verify_file_path_safetyMutant(path) ==
    IF path # <<>> /\ Head(path) \in InjectionChars
    THEN [is_safe |-> FALSE, safety_reason |-> "Invalid characters in path"]
    ELSE [is_safe |-> TRUE, safety_reason |-> "Path is safe for read access"]

verify_file_path_safety(path) ==
    LET stripped == Strip(path)
        normal == IF stripped = <<>> THEN <<"/">> ELSE stripped
    IN  IF \E i \in 1..Len(normal) : normal[i] \in InjectionChars
        THEN [is_safe |-> FALSE, safety_reason |-> "Invalid characters in path"]
        ELSE [is_safe |-> TRUE, safety_reason |-> "Path is safe for read access"]

PodName == "nginx-1"

PodNamespace == "default"

\* _parse_ls_output, as a function of the listing
parse_ls_output(stdout) == <<"files of", stdout>>

\* What a pod operation returns, with the argument vectors it handed to
\* _run_kubectl_command.
PodReturn(value, invoked) == [raised |-> FALSE, value |-> value, invoked |-> invoked]

read_pod_file(namespace, pod_name, file_path, proc) ==
    LET safety == verify_file_path_safety(file_path)
        command == <<"exec", pod_name, "-n", namespace, "--", "cat", file_path>>
        result == run_kubectl_command(DefaultKubeconfig, command, CommandTimeout, proc)
    IN  IF ~safety.is_safe
        THEN PodReturn([success |-> FALSE, error |-> <<"File access denied for safety reasons: ", safety.safety_reason>>, content |-> ""], <<>>)
        ELSE IF result.raised
        THEN PodReturn([success |-> FALSE, error |-> result.value, content |-> ""], <<command>>)
        ELSE IF result.value.success
        THEN PodReturn([success |-> TRUE, content |-> result.value.stdout, timestamp |-> result.value.timestamp], <<command>>)
        ELSE PodReturn([success |-> FALSE, error |-> Get(result.value, "stderr", "Failed to read file"), content |-> ""], <<command>>)

browse_pod_files(namespace, pod_name, path, proc) ==
    LET safety == verify_file_path_safety(path)
        command == <<"exec", pod_name, "-n", namespace, "--", "ls", "-la", path>>
        result == run_kubectl_command(DefaultKubeconfig, command, CommandTimeout, proc)
    IN  IF ~safety.is_safe
        THEN PodReturn([success |-> FALSE, error |-> <<"Path access denied for safety reasons: ", safety.safety_reason>>, files |-> <<>>], <<>>)
        ELSE IF result.raised
        THEN PodReturn([success |-> FALSE, error |-> result.value, files |-> <<>>], <<command>>)
        ELSE IF result.value.success
        THEN PodReturn([success |-> TRUE, files |-> parse_ls_output(result.value.stdout), current_path |-> path,
                        timestamp |-> result.value.timestamp], <<command>>)
        ELSE PodReturn([success |-> FALSE, error |-> Get(result.value, "stderr", "Failed to list files"), files |-> <<>>], <<command>>)

MaxPathLen == 3

PathChars == {"/", "a", " "} \cup InjectionChars

Paths == SeqsUpTo(PathChars, MaxPathLen)

PodProcs ==
    {ExitOutcome("ok", 0, "OUT", {}), ExitOutcome("command_failed", 1, "", {}), RaiseOutcome("TimeoutExpired", "hang", TRUE)}

PodCalls == {[kind |-> k, path |-> path, proc |-> proc] : k \in {"read_pod_file", "browse_pod_files"}, path \in Paths, proc \in PodProcs}

ReadPodFile ==
    /\ exec_call.kind = "read_pod_file" /\ exec_result = NoCall
    /\ exec_result' = read_pod_file(PodNamespace, PodName, exec_call.path, exec_call.proc)
    /\ UNCHANGED <<exec_call, llm_call, llm_result, providerVars, chatVars>>

BrowsePodFiles ==
    /\ exec_call.kind = "browse_pod_files" /\ exec_result = NoCall
    /\ exec_result' = browse_pod_files(PodNamespace, PodName, exec_call.path, exec_call.proc)
    /\ UNCHANGED <<exec_call, llm_call, llm_result, providerVars, chatVars>>

NextPod == ReadPodFile \/ BrowsePodFiles

(***************************************************************************)
(* Specifications                                                          *)
(***************************************************************************)
PureIdle ==
    /\ ExecIdle
    /\ LLMIdle
    /\ ProviderIdle

Init == ChatStart(TurnDomain) /\ PureIdle

\* One request with the full range of inputs.
Next == \E w \in {1} : ChatStep(w, TurnDomain)

Spec == Init /\ [][Next]_vars

\* One request with a classification budget above what the provider returns.
MaxBudget == 5

BudgetDomain ==
    [sessions |-> {"s1"}, users |-> {"alice"},
     prefs |-> {EmptyDict, [max_commands_preference |-> MaxBudget + 1]},
     llm_configs |-> {[provider |-> "openrouter", api_key |-> TRUE], [provider |-> "local", api_key |-> FALSE]},
     classifications |-> {ClassificationResult(q, n, TRUE) : q \in {"SIMPLE_LOOKUP", "DEEP_ANALYSIS"}, n \in {0, MaxBudget}},
     suggest_replies |-> SuggestReplies({<<GetPods>>, <<GetPods, DescribePod, DeletePod, GetPods>>}),
     follow_up_replies |-> SuggestReplies({<<>>, <<DescribePod, GetPods, DeletePod>>}),
     analyze_replies |-> {NetResponse(200, "json_ok", "analysis text")},
     procs |-> {ExitOutcome("ok", 0, "OUT", {})}, follow_up_procs |-> {ExitOutcome("ok", 0, "OUT", {})},
     kubeconfigs |-> {DefaultKubeconfig}, db_ok |-> {TRUE}]

NextBudget == \E w \in {1} : ChatStep(w, BudgetDomain)

InitBudget == ChatStart(BudgetDomain) /\ PureIdle

SpecBudget == InitBudget /\ [][NextBudget]_vars

\* Concurrent requests, as served by the threads of the server.
NextConc == \E w \in Workers : ChatStep(w, ConcDomain)

InitConc == ChatStart(ConcDomain) /\ PureIdle

SpecConc == InitConc /\ [][NextConc]_vars

\* Requests of one session together with logout and the deletions.
NextSession ==
    \/ \E w \in Workers : ChatStep(w, SessionDomain)
    \/ Logout(SessionDomain)
    \/ DeleteUserHistory(SessionDomain)
    \/ DeleteChatSession(SessionDomain)

InitSession == ChatStart(SessionDomain) /\ PureIdle

SpecSession == InitSession /\ [][NextSession]_vars

\* Requests while the active LLM configuration is switched.
NextAdmin ==
    \/ \E w \in Workers : ChatStep(w, AdminDomain)
    \/ ActivateLLMConfig(AdminDomain)

InitAdmin == ChatStart(AdminDomain) /\ PureIdle

SpecAdmin == InitAdmin /\ [][NextAdmin]_vars

\* One request while the active kubeconfig is switched.
KubeDomain ==
    [sessions |-> {"s1"}, users |-> {"alice"}, prefs |-> {EmptyDict},
     llm_configs |-> {[provider |-> "local", api_key |-> FALSE]},
     classifications |-> {ClassificationResult("MODERATE_INVESTIGATION", 2, TRUE)},
     suggest_replies |-> SuggestReplies({<<>>, <<GetPods>>, <<GetPods, DescribePod>>}),
     follow_up_replies |-> SuggestReplies({<<DescribePod>>}), analyze_replies |-> {NetResponse(200, "json_ok", "analysis text")},
     procs |-> {ExitOutcome("ok", 0, "OUT", {})}, follow_up_procs |-> {ExitOutcome("ok", 0, "OUT", {})},
     kubeconfigs |-> {DefaultKubeconfig, CustomKubeconfig}, db_ok |-> BOOLEAN]

NextKube ==
    \/ \E w \in {1} : ChatStep(w, KubeDomain)
    \/ ActivateKubeconfig(KubeDomain)

InitKube == ChatStart(KubeDomain) /\ PureIdle

SpecKube == InitKube /\ [][NextKube]_vars

\* /health requests while time passes and kubeconfigs are changed.
HealthDomain ==
    [db_health |-> {"healthy", "locked", "raise"}, kubeconfigs |-> {DefaultKubeconfig, CustomKubeconfig},
     llm_configs |-> {NoLLMConfig}, db_ok |-> BOOLEAN]

NextHealth ==
    \/ \E w \in Workers : HealthStep(w, HealthDomain)
    \/ Tick
    \/ CreateKubeconfig(HealthDomain)
    \/ UpdateKubeconfig(HealthDomain)
    \/ DeleteKubeconfig(HealthDomain)
    \/ ActivateKubeconfig(HealthDomain)

InitHealth == ChatStart(HealthDomain) /\ PureIdle

SpecHealth == InitHealth /\ [][NextHealth]_vars

InitExec ==
    /\ exec_call \in ExecCalls
    /\ exec_result = NoCall
    /\ LLMIdle
    /\ ProviderIdle
    /\ ChatIdle

SpecExec == InitExec /\ [][NextExec]_vars

InitPod ==
    /\ exec_call \in PodCalls
    /\ exec_result = NoCall
    /\ LLMIdle
    /\ ProviderIdle
    /\ ChatIdle

SpecPod == InitPod /\ [][NextPod]_vars

InitLLM ==
    /\ llm_call \in LLMCalls
    /\ llm_result = NoCall
    /\ ExecIdle
    /\ ProviderIdle
    /\ ChatIdle

SpecLLM == InitLLM /\ [][NextLLM]_vars

\* A sequence of calls on one provider instance.
InitProvider == ChatIdle /\ PureIdle

SpecProvider == InitProvider /\ [][NextProvider]_vars

(***************************************************************************)
(* Properties of the diagnostic executor (checked under SpecExec)          *)
(***************************************************************************)
ExecReturned == exec_result # NoCall

\* C4: for every argument vector, timeout and subprocess outcome (exit,
\* timeout, missing binary, unexpected exception), _run_kubectl_command
\* returns a result dict whose success flag is set, and raises nothing.
C4_ExecutorNeverRaises ==
    ExecReturned =>
        /\ exec_result.raised = FALSE
        /\ "success" \in DOMAIN exec_result.value
        /\ exec_result.value.success \in BOOLEAN
        /\ exec_result.value.success = (exec_call.proc.kind = "exit" /\ exec_call.proc.returncode = 0)

C4_Witness ==
    /\ ExecReturned
    /\ exec_call.proc.kind = "Exception"
    /\ ~exec_call.proc.bound
    /\ ~exec_result.raised
    /\ exec_result.value.success = FALSE

\* C5: kubectl_available=false is reported exactly when the binary is
\* absent, and cluster_accessible=false exactly when the target is
\* unreachable; neither is reported for the other's cause.
C5_TriageExact ==
    ExecReturned =>
        /\ (Get(exec_result.value, "kubectl_available", TRUE) = FALSE) <=> (exec_call.proc.cause = "binary_absent")
        /\ (Get(exec_result.value, "cluster_accessible", TRUE) = FALSE) <=> (exec_call.proc.cause = "unreachable")

(***************************************************************************)
(* Properties of the provider methods (checked under SpecLLM)              *)
(***************************************************************************)
LLMReturned == llm_result # NoCall

IsSuggestion(kind) == kind \in {"suggest_commands", "suggest_follow_up_commands"}

\* The value a method returns when its call has failed.
IsFallbackValue(kind, backend, value) ==
    IF IsSuggestion(kind) THEN value = <<>>
    ELSE IF kind = "analyze_command_outputs" THEN value = FallbackGeneric
    ELSE value.success = FALSE

TransportFailed(net) == net.kind # "response" \/ net.status \notin 200..299

MalformedBody(net) == net.kind = "response" /\ net.body \in {"not_json", "missing_key"}

\* C8 as stated: no method raises, and on timeout, connection error,
\* non-2xx status or malformed body each method returns its fallback.
C8_FallbackOnEveryFailure ==
    LLMReturned =>
        /\ llm_result.raised = FALSE
        /\ (TransportFailed(llm_call.net) \/ MalformedBody(llm_call.net))
              => IsFallbackValue(llm_call.kind, llm_call.backend, llm_result.value)

\* C8 amended: no method raises; on timeout, connection error or non-2xx
\* status each method returns its fallback; on a malformed body the three
\* methods that read the body do (test_connection never reads the body).
C8_FallbackOnFailure ==
    LLMReturned =>
        /\ llm_result.raised = FALSE
        /\ (TransportFailed(llm_call.net) \/ (MalformedBody(llm_call.net) /\ llm_call.kind # "test_connection"))
              => IsFallbackValue(llm_call.kind, llm_call.backend, llm_result.value)

C8_Witness ==
    /\ LLMReturned
    /\ llm_call.kind = "suggest_follow_up_commands"
    /\ llm_call.backend = "local"
    /\ llm_call.net.status = 200
    /\ llm_call.net.body = "not_json"
    /\ llm_result.raised = FALSE
    /\ llm_result.value = <<>>

\* C9: whatever the reply, suggest_commands returns at most 3 commands and
\* suggest_follow_up_commands at most 2, in every provider implementation.
C9_SuggestionCaps ==
    LLMReturned =>
        /\ llm_call.kind = "suggest_commands" => Len(llm_result.value) <= 3
        /\ llm_call.kind = "suggest_follow_up_commands" => Len(llm_result.value) <= 2

(***************************************************************************)
(* Properties of the /chat endpoint (checked under Spec and SpecConc)      *)
(***************************************************************************)
EventsOf(w) == turn[w].events

EventIndex(w, op) == {i \in 1..Len(EventsOf(w)) : EventsOf(w)[i].op = op}

Responded(w) == turn[w].pc = "done" /\ turn[w].response.status = 200

\* The rows a completed turn of worker w has stored.
UserRow(w) == ChatRow(turn[w].user_id, turn[w].session_id, "user", turn[w].user_message, <<>>, EmptyDict)

AssistantRow(w) ==
    ChatRow(turn[w].user_id, turn[w].session_id, "assistant", turn[w].bot_response, turn[w].executed_commands,
            ClassificationInfo(turn[w].classification))

BothTurnsPersisted(w) ==
    \E i, j \in 1..Len(db_chat) : i < j /\ db_chat[i] = UserRow(w) /\ db_chat[j] = AssistantRow(w)

\* The read-only verbs of the specification's Safety Gate.
ReadOnlyVerbs == {"get", "describe", "logs", "top", "list", "cluster-info"}

\* C1: every command handed to the executor, in the primary or the
\* follow-up phase, has a verb of the read-only allow-list.
C1_OnlyReadOnlyVerbsExecuted ==
    \A w \in Workers : \A i \in EventIndex(w, "execute") :
        LET cmd_parts == EventsOf(w)[i].detail.cmd_parts
        IN  cmd_parts # <<>> /\ Head(cmd_parts) \in ReadOnlyVerbs

\* C2: after the truncation of the suggestions the number of surviving
\* primary commands is at most the effective budget, and the effective
\* budget is at most the classification's suggested maximum.
C2_TruncationWithinBudget ==
    \A w \in Workers :
        EventIndex(w, "suggest") # {} =>
            /\ Len(turn[w].suggested_commands) <= turn[w].max_commands
            /\ turn[w].max_commands <= turn[w].classification.suggested_max_commands

Roles(h) == [i \in 1..Len(h) |-> h[i].role]

\* C3: two turns of the same session that have both been answered leave
\* the session's in-memory turn list as two whole user/assistant pairs, no
\* turn interleaved with the other and none lost.
C3_SameSessionTurnsSerial ==
    \A w1, w2 \in Workers :
        (w1 # w2 /\ Responded(w1) /\ Responded(w2) /\ turn[w1].session_id = turn[w2].session_id) =>
            /\ turn[w1].session_id \in DOMAIN conversation_history
            /\ Roles(conversation_history[turn[w1].session_id]) = <<"user", "assistant", "user", "assistant">>

FailedExecution(e) == e.op = "execute" /\ ~e.detail.output.success

\* C6: a failed command (timeout, missing tool, unreachable target,
\* non-zero exit) in either phase does not abort the turn: its result is
\* stored in command_outputs with success false (and error set on a
\* timeout), the turn goes on to the next command, the follow-up step or
\* the analysis, the analysis receives the stored results, and the only
\* errors that end a turn after a command are those of the activity log.
C6_FailedCommandDoesNotAbort ==
    \A w \in Workers : \A i \in 1..Len(EventsOf(w)) :
        LET e == EventsOf(w)[i]
            t == turn[w]
        IN  FailedExecution(e) =>
               /\ e.detail.cmd \in DictKeys(t.command_outputs)
               /\ (e.detail.cause = "hang" => "error" \in DOMAIN e.detail.output)
               /\ (\A j \in (i + 1)..Len(EventsOf(w)) : EventsOf(w)[j].op # "execute" \/ EventsOf(w)[j].detail.cmd # e.detail.cmd)
                     => \E k \in 1..Len(t.command_outputs) :
                           t.command_outputs[k] = [key |-> e.detail.cmd, value |-> e.detail.output]
               /\ IF i = Len(EventsOf(w))
                  THEN t.pc \in {"execute", "execute_follow_up", "follow_up", "analyze"}
                  ELSE \/ EventsOf(w)[i + 1].op \in {"execute", "follow_up", "analyze"}
                       \/ EventsOf(w)[i + 1].op = "error" /\ EventsOf(w)[i + 1].detail = "log_activity"
               /\ \A a \in EventIndex(w, "analyze") : EventsOf(w)[a].detail.outputs = t.command_outputs
               /\ (t.pc = "done" /\ EventIndex(w, "error") = {}) =>
                     /\ EventIndex(w, "analyze") # {}
                     /\ EventIndex(w, "respond") # {}
                     /\ t.response.status = 200
                     /\ t.response.commands_executed = t.executed_commands

C6_Witness ==
    /\ Responded(1)
    /\ \E i \in EventIndex(1, "execute") : EventsOf(1)[i].detail.cause = "hang" /\ ~EventsOf(1)[i].detail.output.success
    /\ \E i \in EventIndex(1, "execute") : EventsOf(1)[i].detail.phase = "follow_up" /\ EventsOf(1)[i].detail.cause = "binary_absent"
    /\ \E a \in EventIndex(1, "analyze") : EventsOf(1)[a].detail.outputs # <<>>

AnalyzeGotNon200(e) == e.op = "analyze" /\ e.detail.net.kind = "response" /\ e.detail.net.status # 200

\* C7: when the provider's HTTP call returns a non-200 status during the
\* analysis, the text of the turn is the fallback text of the analysis,
\* the turn goes on to persist (only a database failure ends it), and a
\* turn that is answered has both its rows stored and carries that text.
C7_AnalyzeFallbackOnNon200 ==
    \A w \in Workers :
        /\ (turn[w].pc = "done" /\ EventIndex(w, "error") # {}) =>
               \A i \in EventIndex(w, "error") : EventsOf(w)[i].detail # "analyze_command_outputs"
        /\ \A i \in 1..Len(EventsOf(w)) :
              AnalyzeGotNon200(EventsOf(w)[i]) =>
                 /\ turn[w].bot_response = generate_enhanced_fallback_response("analysis")
                 /\ IF i = Len(EventsOf(w))
                    THEN turn[w].pc = "save_user"
                    ELSE \/ EventsOf(w)[i + 1] = Event("save", "user")
                         \/ EventsOf(w)[i + 1] = Event("error", "save_chat_message")
                 /\ Responded(w) =>
                       /\ turn[w].response.response = generate_enhanced_fallback_response("analysis")
                       /\ BothTurnsPersisted(w)

C7_Witness ==
    /\ Responded(1)
    /\ \E i \in EventIndex(1, "analyze") : EventsOf(1)[i].detail.net.status = 500
    /\ turn[1].response.response = FallbackGeneric
    /\ turn[1].executed_commands # <<>>
    /\ BothTurnsPersisted(1)

\* C10: when the suggestion list is empty no command is executed, the
\* analysis is invoked with an empty command_outputs map, and the turn
\* that is answered has both its rows stored, analysis_type "advice_only"
\* and commands_executed empty.
C10_AdviceShortCircuit ==
    \A w \in Workers :
        (EventIndex(w, "suggest") # {} /\ turn[w].suggested_commands = <<>>) =>
            /\ EventIndex(w, "execute") = {}
            /\ EventIndex(w, "follow_up") = {}
            /\ turn[w].analysis_type = "advice_only"
            /\ \A a \in EventIndex(w, "analyze") : EventsOf(w)[a].detail.outputs = EmptyDict
            /\ Responded(w) =>
                  /\ turn[w].response.analysis_type = "advice_only"
                  /\ turn[w].response.commands_executed = <<>>
                  /\ BothTurnsPersisted(w)
                  /\ AssistantRow(w).commands_executed = <<>>

C10_Witness ==
    /\ Responded(1)
    /\ turn[1].provider_suggestions # <<>>
    /\ turn[1].suggested_commands = <<>>
    /\ turn[1].response.analysis_type = "advice_only"
    /\ turn[1].response.commands_executed = <<>>
    /\ BothTurnsPersisted(1)

IsPrefix(s, t) == Len(s) <= Len(t) /\ s = SubSeq(t, 1, Len(s))

\* The commands the primary loop has handed to the executor, in order.
PrimaryExecuted(w) ==
    LET primary == SelectSeq(EventsOf(w), LAMBDA e : e.op = "execute" /\ e.detail.phase = "primary")
    IN  [i \in 1..Len(primary) |-> primary[i].detail.cmd]

FollowUpExecuted(w) ==
    LET later == SelectSeq(EventsOf(w), LAMBDA e : e.op = "execute" /\ e.detail.phase = "follow_up")
    IN  [i \in 1..Len(later) |-> later[i].detail.cmd]

\* C11: when the provider suggests more commands than the effective
\* budget, the primary phase executes the first effective_budget
\* suggestions in their original order and nothing else: what has been
\* executed is always a prefix of them, and all of them once the turn is
\* answered.
C11_PrimaryIsBudgetPrefix ==
    \A w \in Workers :
        (EventIndex(w, "suggest") # {} /\ Len(turn[w].provider_suggestions) > turn[w].max_commands) =>
            /\ IsPrefix(PrimaryExecuted(w), Take(turn[w].provider_suggestions, turn[w].max_commands))
            /\ Responded(w) => PrimaryExecuted(w) = Take(turn[w].provider_suggestions, turn[w].max_commands)

\* C12: the follow-up phase (the request for follow-up commands and their
\* execution) happens only in a turn whose classification allows
\* follow-ups, whose question type is MODERATE_INVESTIGATION or
\* DEEP_ANALYSIS, and that has already executed a primary command; in a
\* turn where one of the three fails nothing is requested or run.
C12_FollowUpGuard ==
    \A w \in Workers :
        (EventIndex(w, "follow_up") # {} \/ FollowUpExecuted(w) # <<>> \/ turn[w].pc \in {"follow_up", "execute_follow_up"}) =>
            /\ turn[w].classification.follow_up_allowed
            /\ turn[w].classification.question_type \in {"MODERATE_INVESTIGATION", "DEEP_ANALYSIS"}
            /\ PrimaryExecuted(w) # <<>>
            /\ \A f \in EventIndex(w, "follow_up") :
                  \E i \in 1..(f - 1) : EventsOf(w)[i].op = "execute" /\ EventsOf(w)[i].detail.phase = "primary"
            /\ FollowUpExecuted(w) # <<>> => EventIndex(w, "follow_up") # {}

C12_Witness ==
    /\ Responded(1)
    /\ turn[1].classification.follow_up_allowed
    /\ turn[1].classification.question_type = "DEEP_ANALYSIS"
    /\ Len(PrimaryExecuted(1)) = 1
    /\ Len(FollowUpExecuted(1)) = 2
    /\ EventIndex(1, "follow_up") # {}

IsPrimary(e) == e.op = "execute" /\ e.detail.phase = "primary"

\* C13: the result of a follow-up command is added to command_outputs and
\* replaces no earlier entry: what the analysis receives still holds the
\* entry the primary phase left for each of its commands, also when a
\* follow-up command has the same text as one of them.
C13_FollowUpNeverReplaces ==
    \A w \in Workers : \A a \in EventIndex(w, "analyze") :
        LET outputs == EventsOf(w)[a].detail.outputs
            e(i) == EventsOf(w)[i]
            lastPrimary == {i \in 1..(a - 1) : IsPrimary(e(i)) /\ ~\E j \in (i + 1)..(a - 1) : IsPrimary(e(j)) /\ e(j).detail.cmd = e(i).detail.cmd}
        IN  \A i \in lastPrimary :
                \E k \in 1..Len(outputs) : outputs[k] = [key |-> e(i).detail.cmd, value |-> e(i).detail.output]

(***************************************************************************)
(* Properties of the in-pod file operations (checked under SpecPod)        *)
(***************************************************************************)
\* The metacharacters of the specification: pipe, ampersand, semicolon,
\* backtick, dollar, parentheses.
ShellMetacharacters == {"|", "&", ";", "backtick", "$", "(", ")"}

HasMetacharacter(path) == \E i \in 1..Len(path) : path[i] \in ShellMetacharacters

\* C14: for every path holding one of | & ; backtick $ ( ) the safety check
\* answers not allowed, and read_pod_file / browse_pod_files return
\* success=false without handing anything to the executor.
C14_UnsafePathNeverExecuted ==
    HasMetacharacter(exec_call.path) =>
        /\ ~verify_file_path_safety(exec_call.path).is_safe
        /\ ExecReturned =>
              /\ ~exec_result.raised
              /\ exec_result.value.success = FALSE
              /\ exec_result.invoked = <<>>

C14_Witness ==
    /\ ExecReturned
    /\ exec_call.kind = "browse_pod_files"
    /\ exec_call.path = <<"/", "$", "a">>
    /\ exec_call.proc.cause = "ok"
    /\ exec_result.value.success = FALSE
    /\ exec_result.invoked = <<>>

\* The position of the one event (op, detail) of worker w; 0 when it has
\* not happened exactly once.
EventAt(w, op, detail) ==
    LET at == {i \in EventIndex(w, op) : EventsOf(w)[i].detail = detail}
    IN  IF Cardinality(at) = 1 THEN CHOOSE i \in at : TRUE ELSE 0

\* C15: a turn that is answered has, before the answer, appended the user
\* turn and the assistant turn (with commands_executed and the
\* classification snapshot) to the session's in-memory list and saved
\* both rows, the user's before the assistant's.
C15_PersistBeforeRespond ==
    \A w \in Workers :
        Responded(w) =>
            LET t == turn[w]
                h == conversation_history[t.session_id]
            IN  /\ 0 < EventAt(w, "append", "user")
                /\ EventAt(w, "append", "user") < EventAt(w, "save", "user")
                /\ EventAt(w, "save", "user") < EventAt(w, "save", "assistant")
                /\ EventAt(w, "save", "assistant") < EventAt(w, "append", "assistant")
                /\ EventAt(w, "append", "assistant") < EventAt(w, "respond", <<>>)
                /\ EventAt(w, "respond", <<>>) = Len(EventsOf(w))
                /\ \E i, j \in 1..Len(db_chat) :
                      /\ i < j
                      /\ db_chat[i].role = "user" /\ db_chat[i].message = t.user_message
                      /\ db_chat[i].session_id = t.session_id /\ db_chat[i].user_id = t.user_id
                      /\ db_chat[j].role = "assistant" /\ db_chat[j].message = t.bot_response
                      /\ db_chat[j].session_id = t.session_id /\ db_chat[j].user_id = t.user_id
                      /\ db_chat[j].commands_executed = t.executed_commands
                      /\ db_chat[j].classification_info.type = t.classification.question_type
                /\ \E i, j \in 1..Len(h) :
                      /\ i < j /\ j = Len(h)
                      /\ h[i].role = "user" /\ h[i].message = t.user_message
                      /\ h[j].role = "assistant" /\ h[j].message = t.bot_response
                      /\ {"commands_executed", "classification"} \subseteq DOMAIN h[j]
                      /\ h[j].commands_executed = t.executed_commands
                      /\ h[j].classification.type = t.classification.question_type

C15_Witness ==
    /\ Responded(1)
    /\ turn[1].analysis_type = "command_based"
    /\ Len(turn[1].executed_commands) = 2
    /\ Len(db_chat) = 2
    /\ db_chat[2].commands_executed = turn[1].executed_commands
    /\ Len(conversation_history[turn[1].session_id]) = 2

\* C16: every turn-level failure of a chat turn (a response with server-error
\* status 500) is the generic internal-error response, which carries no
\* exception text, and it is raised by the handler's catch-all (a failed
\* persistence call or an unexpected exception) -- failures while the LLM
\* provider is constructed included.
TurnLevelFailure(w) == turn[w].pc = "done" /\ turn[w].response.status = 500

C16_TurnFailureIsGeneric ==
    \A w \in Workers :
        TurnLevelFailure(w) =>
            /\ turn[w].response = InternalErrorResponse
            /\ EventIndex(w, "error") # {}

UserTurnAppended(w) == \E i \in EventIndex(w, "append") : EventsOf(w)[i].detail = "user"

HoldsUserTurn(w) ==
    /\ turn[w].session_id \in DOMAIN conversation_history
    /\ \E i \in 1..Len(conversation_history[turn[w].session_id]) :
          conversation_history[turn[w].session_id][i] = UserTurn(turn[w].user_message)

\* C17: a session id has one in-memory turn list, whatever the interleaving
\* of concurrent requests: once a request has appended its user turn to the
\* session's list, the list cached under that session id holds that turn
\* (no second request installs a list of its own over it).
C17_NoAppendedTurnLost == \A w \in Workers : UserTurnAppended(w) => HoldsUserTurn(w)

\* C18: a logout or a successful history or session deletion for a chat
\* session leaves no in-memory turn list under that session id.
C18_NoCacheAfterDeletion ==
    [][\A s \in SessionDomain.sessions, u \in SessionDomain.users :
          (logout(s) \/ delete_user_history(u, s, TRUE) \/ delete_chat_session(u, s, TRUE)) =>
              s \notin DOMAIN conversation_history']_vars

InTurn(w) == turn[w].pc \notin {"idle", "done"}

CachedList(history, s) ==
    IF s \in DOMAIN history THEN [cached |-> TRUE, turns |-> history[s]] ELSE [cached |-> FALSE, turns |-> <<>>]

\* C19: two turns in progress on different session ids do not block one
\* another (whatever the state of the other turn, a turn has its next step
\* enabled: no step waits on anything another turn holds), and the turn list
\* cached under a session id changes only in a step of a turn of that
\* session.
C19_SessionsIndependent ==
    /\ [](\A w1, w2 \in Workers :
             (w1 # w2 /\ InTurn(w1) /\ InTurn(w2) /\ turn[w1].session_id # turn[w2].session_id) =>
                 ENABLED ChatStep(w1, ConcDomain))
    /\ [][\A s \in ConcDomain.sessions :
             CachedList(conversation_history', s) # CachedList(conversation_history, s) =>
                 \E w \in Workers : turn[w].session_id = s /\ turn'[w] # turn[w]]_vars

C19_Witness ==
    /\ turn[1].session_id # turn[2].session_id
    /\ turn[1].pc = "save_assistant"
    /\ turn[2].pc = "analyze"
    /\ HistoryCached(turn[1])
    /\ HistoryCached(turn[2])

ResponseKeys == {"response", "commands_executed", "classification", "session_id", "timestamp", "analysis_type"}

ClassificationKeys ==
    {"type", "complexity_score", "confidence", "method", "reasoning", "follow_up_allowed", "max_commands_suggested"}

\* C20: every successful chat response, on the advice_only and on the
\* command_based path, has the keys response, commands_executed, session_id,
\* timestamp, analysis_type and classification, and its classification has
\* all of type, complexity_score, confidence, method, reasoning,
\* follow_up_allowed and max_commands_suggested.
C20_ResponseHasFullStructure ==
    \A w \in Workers :
        Responded(w) =>
            /\ ResponseKeys \subseteq DOMAIN turn[w].response
            /\ turn[w].response.analysis_type \in {"advice_only", "command_based"}
            /\ ClassificationKeys \subseteq DOMAIN turn[w].response.classification

ExecutionsOf(w, phase) == {i \in EventIndex(w, "execute") : EventsOf(w)[i].detail.phase = phase}

Before(I, J) == \A i \in I, j \in J : i < j

SameReply(n1, n2) ==
    /\ n1.kind = n2.kind
    /\ n1.status = n2.status
    /\ n1.body = n2.body
    /\ (n1.kind = "response" /\ n1.status = 200 /\ n1.body = "json_ok") => n1.content = n2.content

AnalyzeCalls == {i \in 1..Len(provider_calls) : provider_calls[i].method = "analyze_command_outputs"}

C23_ExecutedWithinBudget ==
    \A w \in Workers :
        EventIndex(w, "classify") # {} => Len(turn[w].executed_commands) <= turn[w].max_commands

MinOf(a, b) == IF a < b THEN a ELSE b

PreferencePresent(user_prefs) == user_prefs # EmptyDict /\ "max_commands_preference" \in DOMAIN user_prefs

\* C24: once the turn is classified, its budget is the smaller of the
\* classification's suggested_max_commands and the user's preference when a
\* preference is present (whatever its value, 0 included), and
\* suggested_max_commands when none is present.
C24_BudgetIsMinimum ==
    \A w \in Workers :
        EventIndex(w, "classify") # {} =>
            turn[w].max_commands =
                IF PreferencePresent(turn[w].user_prefs)
                THEN MinOf(turn[w].classification.suggested_max_commands, turn[w].user_prefs.max_commands_preference)
                ELSE turn[w].classification.suggested_max_commands

CommonResultKeys == {"command", "success", "stdout", "stderr", "returncode", "timestamp"}

UniformResultKeys == CommonResultKeys \cup {"kubectl_available", "cluster_accessible"}

\* C25: whatever the outcome of the subprocess (binary missing, cluster
\* unreachable, timeout, unexpected exception, normal exit), the result
\* _run_kubectl_command returns has all of command, success, stdout, stderr,
\* returncode, timestamp, kubectl_available and cluster_accessible.
C25_ResultIsUniform == ExecReturned => UniformResultKeys \subseteq DOMAIN exec_result.value

PlainFailure(proc) == proc.kind = "exit" /\ proc.returncode # 0 /\ proc.cause \in {"resource_missing", "command_failed"}

\* C26: when the binary ran and exited non-zero for a reason that is
\* neither a missing binary nor a connectivity problem (the requested
\* resource does not exist, a bad argument), the result is the plain failure:
\* success false, kubectl_available true, cluster_accessible true, stdout
\* and stderr as the process wrote them.
C26_PlainCommandFailure ==
    (ExecReturned /\ PlainFailure(exec_call.proc)) =>
        /\ exec_result.value.success = FALSE
        /\ Get(exec_result.value, "kubectl_available", FALSE) = TRUE
        /\ Get(exec_result.value, "cluster_accessible", FALSE) = TRUE
        /\ exec_result.value.stdout = exec_call.proc.stdout
        /\ exec_result.value.stderr = exec_call.proc.stderr

\* The command a reply line holds: the line from its first kubectl word on.
CommandOfLine(line) == SubSeq(line, FirstKubectl(line), Len(line))

CommandsOfReply(content) == {CommandOfLine(content[i]) : i \in {j \in 1..Len(content) : HasKubectl(content[j])}}

ParsedReply == LLMReturned /\ IsSuggestion(llm_call.kind) /\ llm_call.net.kind = "response"
               /\ llm_call.net.status = 200 /\ llm_call.net.body = "json_ok"

\* C27: every command suggest_commands or suggest_follow_up_commands
\* returns is the command of one line of the reply, from the word kubectl on,
\* with the line's list marker, number or other leading text left out; no
\* returned command is made of that leading text.
C27_CommandsAreReplyLines ==
    ParsedReply => \A i \in 1..Len(llm_result.value) : llm_result.value[i] \in CommandsOfReply(llm_call.net.content)

\* The commands of the executor invocations of a turn, in the order made.
InvokedCommands(w) ==
    LET executions == SelectSeq(EventsOf(w), LAMBDA e : e.op = "execute")
    IN  [i \in 1..Len(executions) |-> executions[i].detail.cmd]

OutputKeys(command_outputs) == [i \in 1..Len(command_outputs) |-> command_outputs[i].key]

\* C28: in an answered turn the commands_executed list of the response and
\* of the stored assistant row has one entry per executor invocation, in the
\* order of execution, and command_outputs has one result per executed
\* command in that same order.
C28_ExecutionOrderKept ==
    \A w \in Workers :
        Responded(w) =>
            /\ turn[w].response.commands_executed = InvokedCommands(w)
            /\ \E i \in 1..Len(db_chat) : db_chat[i] = AssistantRow(w) /\ db_chat[i].commands_executed = InvokedCommands(w)
            /\ OutputKeys(turn[w].command_outputs) = InvokedCommands(w)

\* C29: a turn builds its own provider from the configuration that is active
\* when the turn reads it, and every LLM call of the turn (classification,
\* suggestion, follow-up suggestion, analysis) is made on that provider,
\* whatever configuration is activated while the turn is in flight; the
\* providers of two turns are different objects.
C29_OneProviderPerTurn ==
    \A w \in Workers :
        /\ \A i \in 1..Len(turn[w].llm_calls) : turn[w].llm_calls[i].provider = turn[w].llm_provider
        /\ turn[w].llm_calls # <<>> =>
              /\ turn[w].llm_provider.instance = w
              /\ turn[w].llm_provider.object.class = turn[w].backend
              /\ \A v \in Workers \ {w} :
                    turn[v].llm_calls # <<>> => turn[v].llm_provider.instance # turn[w].llm_provider.instance

C29_Witness ==
    /\ Responded(1)
    /\ Len(turn[1].llm_calls) = 4
    /\ turn[1].llm_provider.object.class = "openrouter"
    /\ active_llm_config.provider = "local"
    /\ turn[2].llm_calls # <<>>
    /\ turn[2].llm_provider.object.class = "local"

RoleMessagePairs(h) == [i \in 1..Len(h) |-> <<h[i].role, h[i].message>>]

NoTurnInFlight(s) == \A w \in Workers : InTurn(w) => turn[w].session_id # s

Mirrors(w) ==
    /\ turn[w].session_id \in DOMAIN conversation_history
    /\ RoleMessagePairs(conversation_history[turn[w].session_id])
          = RoleMessagePairs(get_chat_history(db_chat, turn[w].user_id, turn[w].session_id))

\* C30: once a request on a session has ended (answered, failed or rejected
\* early) and no turn is in flight on that session, the turn list cached
\* under the session id is the same sequence of (role, message) pairs as
\* the rows stored for the session.
C30_CacheMirrorsStorage ==
    \A w \in Workers :
        (turn[w].pc = "done" /\ NoTurnInFlight(turn[w].session_id)) => Mirrors(w)

ProviderCallPcs == {"suggest", "follow_up", "analyze"}


\* C31: a step in which a turn calls suggest_commands,
\* suggest_follow_up_commands or analyze_command_outputs leaves the cached
\* turn list and the command_outputs map it passed as they were; the cached
\* list of a session only changes in the handler's own steps (loading the
\* history and appending the user turn, appending the assistant turn).
C31_ProviderLeavesSessionState ==
    [][\A w \in Workers :
          /\ (turn[w].pc \in ProviderCallPcs /\ turn'[w] # turn[w]) =>
                /\ conversation_history' = conversation_history
                /\ turn'[w].command_outputs = turn[w].command_outputs
          /\ (conversation_history' # conversation_history /\ turn'[w] # turn[w]) =>
                turn[w].pc \in {"init_history", "install_history", "save_assistant", "log_advice"}]_vars

C31_Witness ==
    /\ turn[1].pc = "save_user"
    /\ Len(turn[1].llm_calls) = 4
    /\ turn[1].command_outputs # <<>>
    /\ HistoryCached(turn[1])

\* The turns a request's LLM calls receive as history, when it is at a call.
HistorySeen(w) ==
    IF turn[w].pc \in {"classify"} \cup ProviderCallPcs /\ HistoryCached(turn[w])
    THEN conversation_history[turn[w].session_id] ELSE <<>>

\* The user that sent a user turn: the message of request v is <<"question", v>>.
SentBy(message, u) == \E v \in Workers : message = <<"question", v>> /\ turn[v].user_id = u

\* C32: at every classification and LLM call of a request, each user turn of
\* the history the call receives was sent by the request's own user, also
\* when another user sends requests under the same session id.
C32_HistoryOfOneUser ==
    \A w \in Workers :
        \A i \in 1..Len(HistorySeen(w)) :
            HistorySeen(w)[i].role = "user" => SentBy(HistorySeen(w)[i].message, turn[w].user_id)

EndedWithError(w) == turn[w].pc = "done" /\ turn[w].response.status # 200

CachedUserTurnOf(w) ==
    \E s \in DOMAIN conversation_history :
        \E i \in 1..Len(conversation_history[s]) :
            /\ conversation_history[s][i].role = "user"
            /\ conversation_history[s][i].message = turn[w].user_message

\* C33: once a request has ended with an error response (400 without an
\* active LLM configuration, 500 on a provider construction failure, 500 from
\* the catch-all), the cache holds no user turn of that request: the
\* session's cached list is what it was before the request.
C33_ErrorLeavesCacheAsBefore ==
    \A w \in Workers : EndedWithError(w) => ~CachedUserTurnOf(w)

\* C34: whatever the classification, the budget, the preference and the
\* provider's reply, a turn executes at most 3 primary commands and at most 2
\* follow-up commands, 5 in total.
C34_AtMostFiveCommands ==
    \A w \in Workers :
        /\ Cardinality(ExecutionsOf(w, "primary")) <= 3
        /\ Cardinality(ExecutionsOf(w, "follow_up")) <= 2
        /\ Len(turn[w].executed_commands) <= 5

C34_Witness ==
    /\ Responded(1)
    /\ turn[1].max_commands >= 5
    /\ Cardinality(ExecutionsOf(1, "primary")) = 3
    /\ Cardinality(ExecutionsOf(1, "follow_up")) = 2
    /\ Len(turn[1].executed_commands) = 5

\* The kubeconfig an invocation was aimed at, read off its command line.
TargetOf(full_command) ==
    IF Len(full_command) >= 3 /\ full_command[2] = "--kubeconfig" THEN full_command[3] ELSE DefaultKubeconfig

\* C35: every command a turn has executed, primary or follow-up, was run
\* against the kubeconfig the turn looked up before its first command, also
\* when another kubeconfig has been activated since.
C35_OneKubeconfigPerTurn ==
    \A w \in Workers :
        \A i \in EventIndex(w, "execute") :
            TargetOf(EventsOf(w)[i].detail.output.command) = turn[w].kubeconfig_path

C35_Witness ==
    /\ Responded(1)
    /\ ExecutionsOf(1, "primary") # {}
    /\ ExecutionsOf(1, "follow_up") # {}
    /\ active_kubeconfig # turn[1].kubeconfig_path
    /\ turn[1].kubeconfig_path = CustomKubeconfig

\* No provider can be built from the configuration: none is active, the
\* openrouter configuration has no API key, or the type is not supported.
ProviderUnavailable(config) ==
    \/ config.provider = "none"
    \/ config.provider = "openrouter" /\ ~config.api_key
    \/ config.provider \notin {"none", "openrouter", "local"}

Classified(w) == EventIndex(w, "classify") # {}

\* C37: a turn whose command budget (max_commands) is 0 executes no command,
\* primary or follow-up, whatever the provider suggested, and when it is
\* answered the response says advice_only with no executed command.
C37_ZeroBudgetIsAdviceOnly ==
    \A w \in Workers :
        (Classified(w) /\ turn[w].max_commands = 0) =>
            /\ EventIndex(w, "execute") = {}
            /\ turn[w].executed_commands = <<>>
            /\ EventIndex(w, "follow_up") = {}
            /\ Responded(w) =>
                  /\ turn[w].response.analysis_type = "advice_only"
                  /\ turn[w].response.commands_executed = <<>>

C37_Witness ==
    /\ Responded(1)
    /\ turn[1].max_commands = 0
    /\ Len(turn[1].provider_suggestions) >= 2
    /\ turn[1].response.analysis_type = "advice_only"

\* The assistant turn a request appended to its session's cached list.
LastCachedTurn(w) == conversation_history[turn[w].session_id][Len(conversation_history[turn[w].session_id])]

TypeMatchesCommands(analysis_type, commands_executed) ==
    /\ analysis_type \in {"command_based", "advice_only"}
    /\ analysis_type = "command_based" <=> commands_executed # <<>>
    /\ analysis_type = "advice_only" <=> commands_executed = <<>>

\* C38: in every answered request the response's analysis_type is
\* command_based exactly when its commands_executed is non-empty and
\* advice_only exactly when it is empty, and so is the assistant turn the
\* request appended to the session's cached list.
C38_AnalysisTypeMatchesCommands ==
    \A w \in {1} :
        Responded(w) =>
            /\ TypeMatchesCommands(turn[w].response.analysis_type, turn[w].response.commands_executed)
            /\ LastCachedTurn(w).role = "assistant"
            /\ TypeMatchesCommands(LastCachedTurn(w).analysis_type, LastCachedTurn(w).commands_executed)
            /\ LastCachedTurn(w).commands_executed = turn[w].response.commands_executed

C38_Witness ==
    /\ Responded(1)
    /\ turn[1].response.analysis_type = "command_based"
    /\ Len(turn[1].response.commands_executed) >= 2
    /\ LastCachedTurn(1).analysis_type = "command_based"

HealthAnswered(w) == health[w].pc = "done"

\* C39: a /health request is answered with 200 exactly when the status it
\* reports is healthy, and with 503 otherwise, whether the result was
\* computed by the request or served from the cache.
C39_HealthCodeMatchesStatus ==
    \A w \in Workers :
        HealthAnswered(w) =>
            /\ health[w].response.code \in {200, 503}
            /\ health[w].response.code = 200 <=> health[w].response.body.status = "healthy"

\* A request received after the latest successful kubeconfig operation it
\* could see is answered with a result computed after that operation.
AnsweredAfterOps(w) == health[w].response.body.computed_ops >= health[w].received_ops

\* C40: a /health request received after a kubeconfig was successfully
\* created, updated, deleted or activated is answered with a result of a
\* check made after that operation, never with one made before it.
C40_HealthRecomputedAfterChange ==
    \A w \in Workers : HealthAnswered(w) => AnsweredAfterOps(w)

====
